---------------------------- MODULE Spec2Model ----------------------------
(***************************************************************************)
(* A model of rendgine-rs (src/src/graphics.rs): the vertex attribute      *)
(* layout, the vertex buffer and vertex array objects, the mesh and the    *)
(* batched TextureRenderer, together with the part of the OpenGL state     *)
(* these write (buffer stores, blending, bound texture, current program,   *)
(* uniforms, draw calls).                                                  *)
(*                                                                         *)
(* f32 values are modelled as integers counting units of 1/FloatDen, so    *)
(* that the f32 -> i32 conversion of the index upload truncates.           *)
(***************************************************************************)
EXTENDS Integers, Sequences, FiniteSets, TLC

(***************************************************************************)
(* Bounds of the model.                                                    *)
(***************************************************************************)
FloatDen == 2      \* an f32 is n / FloatDen
MaxData == 3       \* values held by the stand-alone VertexBufferObject
MaxVerts == 2      \* vertex() calls on the stand-alone VertexArrayObject
MaxOps == 5        \* operations called on the TextureRenderer
MaxShaderOps == 4  \* operations called on the stand-alone ShaderProgram
MaxMeshOps == 4    \* operations called on the stand-alone Mesh
MaxMrOps == 4      \* operations called on the MeshRenderer
MaxCamOps == 4     \* operations called on the Camera
MaxTexOps == 4     \* textures created from an image or by multiply()

F32(n) == n * FloatDen

\* Option<T>
None == <<>>
Some(x) == <<x>>
Unwrap(o) == o[1]

(***************************************************************************)
(* enum Usage                                                              *)
(***************************************************************************)
Usages == <<"POSITIONS", "COLORS", "NORMALS", "TEXCOORDS", "INDICES">>

Usage_position(usage) ==
    CASE usage = "POSITIONS" -> 0
      [] usage = "COLORS"    -> 1
      [] usage = "NORMALS"   -> 2
      [] usage = "TEXCOORDS" -> 3
      [] usage = "INDICES"   -> 4

Usage_offset(usage) ==
    CASE usage = "POSITIONS" -> 3
      [] usage = "COLORS"    -> 4
      [] usage = "NORMALS"   -> 3
      [] usage = "TEXCOORDS" -> 2
      [] usage = "INDICES"   -> 3

(***************************************************************************)
(* struct VertexAttributes                                                 *)
(***************************************************************************)
VertexAttributes_with(has_positions, has_colors, has_normals, has_tex_coords) ==
    LET s0 == 0
        s1 == IF has_positions THEN s0 + Usage_offset("POSITIONS") ELSE s0
        s2 == IF has_colors THEN s1 + Usage_offset("COLORS") ELSE s1
        s3 == IF has_normals THEN s2 + Usage_offset("NORMALS") ELSE s2
        s4 == IF has_tex_coords THEN s3 + Usage_offset("TEXCOORDS") ELSE s3
    IN  [vertex_size    |-> s4,
         has_positions  |-> has_positions,
         has_colors     |-> has_colors,
         has_normals    |-> has_normals,
         has_tex_coords |-> has_tex_coords]

\* VertexAttributes_offset without the `off += Usage::COLORS.offset()` of line 81
VertexAttributes_offset_SkipColors(va, usage) ==
    LET off0 == 0
        off1 == IF va.has_positions THEN off0 + Usage_offset("POSITIONS") ELSE off0
        off2 == off1
        off3 == IF va.has_normals THEN off2 + Usage_offset("NORMALS") ELSE off2
    IN  IF va.has_positions /\ usage = "POSITIONS" THEN off0
        ELSE IF va.has_colors /\ usage = "COLORS" THEN off1
        ELSE IF va.has_normals /\ usage = "NORMALS" THEN off2
        ELSE IF va.has_tex_coords /\ usage = "TEXCOORDS" THEN off3
        ELSE 0

VertexAttributes_offset(va, usage) ==
    LET off0 == 0
        off1 == IF va.has_positions THEN off0 + Usage_offset("POSITIONS") ELSE off0
        off2 == IF va.has_colors THEN off1 + Usage_offset("COLORS") ELSE off1
        off3 == IF va.has_normals THEN off2 + Usage_offset("NORMALS") ELSE off2
    IN  IF va.has_positions /\ usage = "POSITIONS" THEN off0
        ELSE IF va.has_colors /\ usage = "COLORS" THEN off1
        ELSE IF va.has_normals /\ usage = "NORMALS" THEN off2
        ELSE IF va.has_tex_coords /\ usage = "TEXCOORDS" THEN off3
        ELSE 0

VertexAttributes_usage(va, usage) ==
    \/ (usage = "POSITIONS" /\ va.has_positions)
    \/ (usage = "COLORS" /\ va.has_colors)
    \/ (usage = "NORMALS" /\ va.has_normals)
    \/ (usage = "TEXCOORDS" /\ va.has_tex_coords)

(***************************************************************************)
(* struct VertexBufferObject.  gpu is the data store of the GL buffer      *)
(* object `name`, as last written by glBufferData.                         *)
(***************************************************************************)
\* `val as i32`: truncation toward zero
AsI32(val) == IF val >= 0 THEN val \div FloatDen ELSE -((-val) \div FloatDen)

\* uploaded: whether the last bind() called glBufferData
VertexBufferObject_new(usage) ==
    [usage |-> usage, data |-> <<>>, offset |-> 0, dirty |-> FALSE,
     gpu |-> <<>>, uploaded |-> FALSE]

data_ints(data) ==
    [i \in 1..Len(data) |-> 0] \o [i \in 1..Len(data) |-> AsI32(data[i])]

\* VertexBufferObject_bind without the `if self.dirty` of line 153
VertexBufferObject_bind_Always(vbo) ==
    [vbo EXCEPT !.gpu = IF vbo.usage = "INDICES" THEN data_ints(vbo.data) ELSE vbo.data,
                !.uploaded = TRUE,
                !.dirty = FALSE]

VertexBufferObject_bind(vbo) ==
    [vbo EXCEPT !.gpu = IF vbo.dirty
                          THEN IF vbo.usage = "INDICES" THEN data_ints(vbo.data)
                                                          ELSE vbo.data
                          ELSE @,
                !.uploaded = vbo.dirty,
                !.dirty = FALSE]

VertexBufferObject_set_data(vbo, data) ==
    [vbo EXCEPT !.data = data, !.offset = Len(data), !.dirty = TRUE]

VertexBufferObject_add_data_slice(vbo, data) ==
    [vbo EXCEPT !.data = @ \o data, !.offset = @ + Len(data), !.dirty = TRUE]

VertexBufferObject_add_data(vbo, data) ==
    [vbo EXCEPT !.data = Append(@, data), !.offset = @ + 1, !.dirty = TRUE]

\* VertexBufferObject_clear without the `self.dirty = true` of line 189
VertexBufferObject_clear_KeepDirty(vbo) ==
    [vbo EXCEPT !.data = <<>>, !.offset = 0]

VertexBufferObject_clear(vbo) ==
    [vbo EXCEPT !.data = <<>>, !.offset = 0, !.dirty = TRUE]

(***************************************************************************)
(* struct VertexArrayObject                                                *)
(***************************************************************************)
VertexArrayObject_new(attribs) ==
    LET used == SelectSeq(Usages, LAMBDA u : VertexAttributes_usage(attribs, u))
    IN  [vbos        |-> [i \in 1..Len(used) |-> VertexBufferObject_new(used[i])],
         vbo_indices |-> VertexBufferObject_new("INDICES"),
         bound       |-> FALSE]

\* for i in 0..vbo.usage.offset() { vbo.add_data(data[(offset + i) as usize]) }
\* an index past the end of data panics, after the values before it were added
RECURSIVE AddComponents(_, _, _, _)
AddComponents(vbo, data, offset, i) ==
    IF i >= Usage_offset(vbo.usage) THEN [vbo |-> vbo, panicked |-> FALSE]
    ELSE IF offset + i >= Len(data) THEN [vbo |-> vbo, panicked |-> TRUE]
    ELSE AddComponents(VertexBufferObject_add_data(vbo, data[offset + i + 1]),
                       data, offset, i + 1)

RECURSIVE VertexLoop(_, _, _, _)
VertexLoop(vbos, data, k, offset) ==
    IF k > Len(vbos) THEN [vbos |-> vbos, panicked |-> FALSE]
    ELSE LET r == AddComponents(vbos[k], data, offset, 0)
             vbos2 == [vbos EXCEPT ![k] = r.vbo]
         IN  IF r.panicked THEN [vbos |-> vbos2, panicked |-> TRUE]
             ELSE VertexLoop(vbos2, data, k + 1, offset + Usage_offset(vbos[k].usage))

\* VertexArrayObject_vertex without the `offset += vbo.usage.offset()` of line 243
VertexArrayObject_vertex_NoAdvance(vao, data) ==
    LET r == [k \in 1..Len(vao.vbos) |-> AddComponents(vao.vbos[k], data, 0, 0)]
    IN  [vao |-> [vao EXCEPT !.vbos = [k \in 1..Len(vao.vbos) |-> r[k].vbo]],
         panicked |-> \E k \in 1..Len(vao.vbos) : r[k].panicked]

\* the result is [vao, panicked]
VertexArrayObject_vertex(vao, data) ==
    LET r == VertexLoop(vao.vbos, data, 1, 0)
    IN  [vao |-> [vao EXCEPT !.vbos = r.vbos], panicked |-> r.panicked]

VertexArrayObject_clear(vao) ==
    [vao EXCEPT !.vbos = [k \in 1..Len(vao.vbos) |-> VertexBufferObject_clear(vao.vbos[k])],
                !.vbo_indices = VertexBufferObject_clear(vao.vbo_indices)]

RECURSIVE OffsetLoop(_, _, _, _)
OffsetLoop(vbos, usage, k, i) ==
    IF k > Len(vbos) THEN i
    ELSE IF usage = vbos[k].usage THEN i
    ELSE OffsetLoop(vbos, usage, k + 1, i + Usage_offset(vbos[k].usage))

\* VertexArrayObject_get_vertex_offset without the `i += vbo.usage.offset()` of line 262
VertexArrayObject_get_vertex_offset_NoAdvance(vao, usage) == 0

VertexArrayObject_get_vertex_offset(vao, usage) == OffsetLoop(vao.vbos, usage, 1, 0)

VertexArrayObject_bind(vao) ==
    [vbos        |-> [k \in 1..Len(vao.vbos) |-> VertexBufferObject_bind(vao.vbos[k])],
     vbo_indices |-> VertexBufferObject_bind(vao.vbo_indices),
     bound       |-> TRUE]

\* VertexArrayObject_render without the `if !self.bound` of lines 282-284
VertexArrayObject_render_Unchecked(vao) ==
    IF vao.vbo_indices.offset > 0
    THEN [panicked |-> FALSE, kind |-> "DrawElements", count |-> vao.vbo_indices.offset]
    ELSE IF Len(vao.vbos) = 0 THEN [panicked |-> TRUE, kind |-> "none", count |-> 0]
    ELSE [panicked |-> FALSE, kind |-> "DrawArrays", count |-> Len(vao.vbos[1].data)]

\* the draw call issued by render, or a panic: [panicked, kind, count]
VertexArrayObject_render(vao) ==
    IF ~vao.bound THEN [panicked |-> TRUE, kind |-> "none", count |-> 0]
    ELSE IF vao.vbo_indices.offset > 0
         THEN [panicked |-> FALSE, kind |-> "DrawElements", count |-> vao.vbo_indices.offset]
    ELSE IF Len(vao.vbos) = 0 THEN [panicked |-> TRUE, kind |-> "none", count |-> 0]
    ELSE [panicked |-> FALSE, kind |-> "DrawArrays", count |-> Len(vao.vbos[1].data)]

VertexArrayObject_unbind(vao) == [vao EXCEPT !.bound = FALSE]

(***************************************************************************)
(* The OpenGL state the renderers write.                                   *)
(*   blend     whether GL_BLEND is enabled                                 *)
(*   texture   the texture bound to GL_TEXTURE_2D (0: none)                *)
(*   program   the current program (0: none)                               *)
(*   uniforms  the uniform values of each program                          *)
(*   written   for each uniform name, the program that was current when    *)
(*             glUniform* was last called for it (-1: never called)        *)
(***************************************************************************)
UniformNames == {"projModelView", "textureSampler"}

\* the value of a uniform that was never set
UniformDefault(name) == IF name = "textureSampler" THEN 0 ELSE "zero"

GlInit(programs) ==
    [blend    |-> FALSE,
     texture  |-> 0,
     program  |-> 0,
     uniforms |-> [p \in programs |-> [n \in UniformNames |-> UniformDefault(n)]],
     written  |-> [n \in UniformNames |-> -1]]

\* glUniform*: writes a uniform of the current program; without a current
\* program it raises GL_INVALID_OPERATION and writes nothing
GlUniform(gl, name, val) ==
    IF gl.program = 0 THEN [gl EXCEPT !.written[name] = 0]
    ELSE [gl EXCEPT !.uniforms[gl.program][name] = val, !.written[name] = gl.program]

\* the locations of the active uniforms of a linked program
UniformLocations == <<"projModelView", "textureSampler">>

\* glGetUniformLocation: -1 for a name that is no active uniform and for a
\* program that is not linked
GlGetUniformLocation(linked, name) ==
    IF linked /\ \E l \in 1..Len(UniformLocations) : UniformLocations[l] = name
    THEN (CHOOSE l \in 1..Len(UniformLocations) : UniformLocations[l] = name) - 1
    ELSE -1

\* glUniform* at a location: location -1 is silently ignored
GlUniformAt(gl, loc, val) ==
    IF loc = -1 THEN gl ELSE GlUniform(gl, UniformLocations[loc + 1], val)

\* the &str values that hold a 0 byte before their end
NamesWithNul == {"proj\\0ModelView"}

\* CString::new(name): an error for a name with an interior 0 byte
CString_new(name) == IF name \in NamesWithNul THEN None ELSE Some(name)

(***************************************************************************)
(* struct ShaderProgram                                                    *)
(***************************************************************************)
ShaderProgram_new(program_id) ==
    [program_id |-> program_id, vertex_shader_id |-> 0, fragment_shader_id |-> 0,
     uniforms |-> <<>>, linked |-> FALSE]

\* id is what gl::CreateShader returned and compile_status what glGetShaderiv
\* reported: the result is [panicked, id, attached]
ShaderProgram_create_shader(id, compile_status) ==
    IF id = 0 THEN [panicked |-> TRUE, id |-> 0, attached |-> FALSE]
    ELSE IF compile_status = 0 THEN [panicked |-> TRUE, id |-> 0, attached |-> FALSE]
    ELSE [panicked |-> FALSE, id |-> id, attached |-> TRUE]

\* the result is [shader, panicked, attached]
ShaderProgram_create_vertex_shader(shader, id, compile_status) ==
    LET r == ShaderProgram_create_shader(id, compile_status)
    IN  [shader   |-> IF r.panicked THEN shader ELSE [shader EXCEPT !.vertex_shader_id = r.id],
         panicked |-> r.panicked,
         attached |-> r.attached]

ShaderProgram_create_fragment_shader(shader, id, compile_status) ==
    LET r == ShaderProgram_create_shader(id, compile_status)
    IN  [shader   |-> IF r.panicked THEN shader ELSE [shader EXCEPT !.fragment_shader_id = r.id],
         panicked |-> r.panicked,
         attached |-> r.attached]

\* link_status is what glGetProgramiv reported: the result is [shader, panicked,
\* detached], detached the stages detached from the program
ShaderProgram_link_status(shader, link_status) ==
    IF link_status = 0 THEN [shader |-> shader, panicked |-> TRUE, detached |-> {}]
    ELSE [shader   |-> [shader EXCEPT !.linked = TRUE],
          panicked |-> FALSE,
          detached |-> {shader.vertex_shader_id, shader.fragment_shader_id} \ {0}]

\* link() of a program that links
ShaderProgram_link(shader) == ShaderProgram_link_status(shader, 1).shader

ShaderProgram_bind(shader, gl) == [gl EXCEPT !.program = shader.program_id]

ShaderProgram_unbind(shader, gl) == [gl EXCEPT !.program = 0]

\* check_uniform takes &self and stores nothing in self.uniforms: the result
\* is [panicked, loc, asked], asked whether glGetUniformLocation was called
ShaderProgram_check_uniform(shader, name) ==
    IF name \in DOMAIN shader.uniforms
    THEN [panicked |-> FALSE, loc |-> shader.uniforms[name], asked |-> FALSE]
    ELSE IF CString_new(name) = None
    THEN [panicked |-> TRUE, loc |-> -1, asked |-> FALSE]
    ELSE [panicked |-> FALSE, loc |-> GlGetUniformLocation(shader.linked, name),
          asked |-> TRUE]

\* set_uniform_mat4f, set_uniform1f32 and set_uniform1i32: the value is written
\* at the location of name (the types of the uniforms are not modelled)
ShaderProgram_set_uniform(shader, gl, name, val) ==
    LET c == ShaderProgram_check_uniform(shader, name)
    IN  IF c.panicked THEN gl ELSE GlUniformAt(gl, c.loc, val)

(***************************************************************************)
(* struct Mesh                                                             *)
(***************************************************************************)
Mesh_new(attribs) == [vao |-> VertexArrayObject_new(attribs), attribs |-> attribs]

\* the result is [mesh, panicked]
Mesh_vertex(mesh, data) ==
    LET r == VertexArrayObject_vertex(mesh.vao, data)
    IN  [mesh |-> [mesh EXCEPT !.vao = r.vao], panicked |-> r.panicked]

Mesh_clear(mesh) == [mesh EXCEPT !.vao = VertexArrayObject_clear(mesh.vao)]

Mesh_get_vertex_offset(mesh, usage) == VertexArrayObject_get_vertex_offset(mesh.vao, usage)

\* the buffer stores a draw call reads, one per vertex buffer
GpuStores(vao) == [k \in 1..Len(vao.vbos) |-> vao.vbos[k].gpu]

\* the result is [mesh, gl, draws, panicked]; a draw call is recorded with the
\* GL state it is issued in
Mesh_render(mesh, gl, draws, shader, bind_externally, primitive, proj_model_view) ==
    LET gl1  == IF ~bind_externally THEN ShaderProgram_bind(shader, gl) ELSE gl
        vao1 == VertexArrayObject_bind(mesh.vao)
        gl2  == ShaderProgram_set_uniform(shader, gl1, "projModelView", proj_model_view)
        r    == VertexArrayObject_render(vao1)
        draw == [kind      |-> r.kind,
                 primitive |-> primitive,
                 count     |-> r.count,
                 stores    |-> GpuStores(vao1),
                 texture   |-> gl2.texture,
                 program   |-> gl2.program,
                 matrix    |-> IF gl2.program = 0 THEN "zero"
                               ELSE gl2.uniforms[gl2.program]["projModelView"],
                 blend     |-> gl2.blend]
        vao2 == VertexArrayObject_unbind(vao1)
        gl3  == IF ~bind_externally THEN ShaderProgram_unbind(shader, gl2) ELSE gl2
    IN  IF r.panicked
        THEN [mesh |-> [mesh EXCEPT !.vao = vao1], gl |-> gl2, draws |-> draws,
              panicked |-> TRUE]
        ELSE [mesh |-> [mesh EXCEPT !.vao = vao2], gl |-> gl3,
              draws |-> Append(draws, draw), panicked |-> FALSE]

(***************************************************************************)
(* struct MeshRenderer: [shader, mesh, next_vertex].  render takes and     *)
(* returns the GL state and the draw calls issued as well.                 *)
(***************************************************************************)
MeshRenderer_new(program_id) ==
    LET mesh == Mesh_new(VertexAttributes_with(TRUE, TRUE, FALSE, FALSE))
    IN  [shader      |-> ShaderProgram_link(
                             ShaderProgram_create_fragment_shader(
                                 ShaderProgram_create_vertex_shader(
                                     ShaderProgram_new(program_id), program_id + 1, 1).shader,
                                 program_id + 2, 1).shader),
         mesh        |-> mesh,
         next_vertex |-> [i \in 1..mesh.attribs.vertex_size |-> 0]]

\* the result is [mr, gl, draws, panicked]
MeshRenderer_render(mr, gl, draws, combined, primitive) ==
    LET r == Mesh_render(mr.mesh, [gl EXCEPT !.blend = TRUE], draws, mr.shader, FALSE,
                         primitive, combined)
    IN  [mr       |-> [mr EXCEPT !.mesh = r.mesh],
         gl       |-> IF r.panicked THEN r.gl ELSE [r.gl EXCEPT !.blend = FALSE],
         draws    |-> r.draws,
         panicked |-> r.panicked]

MeshRenderer_color(mr, r, g, b, a) ==
    IF mr.mesh.attribs.has_colors
    THEN LET offset == Mesh_get_vertex_offset(mr.mesh, "COLORS")
         IN  [mr EXCEPT !.next_vertex[offset + 1] = r, !.next_vertex[offset + 2] = g,
                        !.next_vertex[offset + 3] = b, !.next_vertex[offset + 4] = a]
    ELSE mr

MeshRenderer_normal(mr, x, y, z) ==
    IF mr.mesh.attribs.has_normals
    THEN LET offset == Mesh_get_vertex_offset(mr.mesh, "NORMALS")
         IN  [mr EXCEPT !.next_vertex[offset + 1] = x, !.next_vertex[offset + 2] = y,
                        !.next_vertex[offset + 3] = z]
    ELSE mr

\* MeshRenderer_tex_coord taking the colour channel for the texture coordinates'
MeshRenderer_tex_coord_AsColor(mr, u, v) ==
    IF mr.mesh.attribs.has_colors
    THEN LET offset == Mesh_get_vertex_offset(mr.mesh, "COLORS")
         IN  [mr EXCEPT !.next_vertex[offset + 1] = u, !.next_vertex[offset + 2] = v]
    ELSE mr

MeshRenderer_tex_coord(mr, u, v) ==
    IF mr.mesh.attribs.has_tex_coords
    THEN LET offset == Mesh_get_vertex_offset(mr.mesh, "TEXCOORDS")
         IN  [mr EXCEPT !.next_vertex[offset + 1] = u, !.next_vertex[offset + 2] = v]
    ELSE mr

\* MeshRenderer_vertex without the `self.next_vertex.fill(0.0)` of line 587
MeshRenderer_vertex_NoReset(mr, x, y, z) ==
    LET nv == [mr.next_vertex EXCEPT ![1] = x, ![2] = y, ![3] = z]
    IN  [mr EXCEPT !.mesh = Mesh_vertex(mr.mesh, nv).mesh, !.next_vertex = nv]

MeshRenderer_vertex(mr, x, y, z) ==
    LET nv == [mr.next_vertex EXCEPT ![1] = x, ![2] = y, ![3] = z]
    IN  [mr EXCEPT !.mesh = Mesh_vertex(mr.mesh, nv).mesh,
                   !.next_vertex = [i \in 1..Len(nv) |-> 0]]

MeshRenderer_clear(mr) ==
    [mr EXCEPT !.mesh = Mesh_clear(mr.mesh),
               !.next_vertex = [i \in 1..Len(mr.next_vertex) |-> 0]]

(***************************************************************************)
(* struct Texture: its GL name and its size                                *)
(***************************************************************************)
Texture_bind(tex, gl) == [gl EXCEPT !.texture = tex.id]

(***************************************************************************)
(* An RgbaImage is the sequence of its rows, top row first; a row is the   *)
(* sequence of its pixels <<r, g, b, a>>, each channel a u8.  A Texture    *)
(* created from an image is [id, width, height, original_image]; store is  *)
(* the image data of the GL texture objects, by name.                      *)
(***************************************************************************)
\* image::imageops::flip_vertical
flip_vertical(img) == [y \in 1..Len(img) |-> img[Len(img) + 1 - y]]

\* `x as u8` of the f32 n / FloatDen: truncation, saturating at 0 and 255
AsU8(n) == IF n <= 0 THEN 0 ELSE IF n \div FloatDen > 255 THEN 255 ELSE n \div FloatDen

\* glGenTextures answered id, then glTexImage2D
Texture_gl_gen(img, id, store) == [n \in DOMAIN store \cup {id} |-> IF n = id THEN img ELSE store[n]]

Texture_from_image(img, id, store) ==
    LET flipped == flip_vertical(img)
    IN  [tex   |-> [id             |-> id,
                    width          |-> IF Len(flipped) = 0 THEN 0 ELSE Len(flipped[1]),
                    height         |-> Len(flipped),
                    original_image |-> flipped],
         store |-> Texture_gl_gen(flipped, id, store)]

\* the closure of pixels_mut().for_each
MultiplyPixel(pixel, r, g, b, a) ==
    <<AsU8(pixel[1] * r), AsU8(pixel[2] * g), AsU8(pixel[3] * b), AsU8(pixel[4] * a)>>

Texture_multiply(tex, r, g, b, a, id, store) ==
    LET img == [y \in 1..Len(tex.original_image) |->
                   [x \in 1..Len(tex.original_image[y]) |->
                       MultiplyPixel(tex.original_image[y][x], r, g, b, a)]]
    IN  Texture_from_image(img, id, store)

(***************************************************************************)
(* struct TextureRenderer.  The operations take and return the renderer    *)
(* together with the GL state and the draw calls issued:                   *)
(* [shader, mesh, next_vertex, last_tex, combined, dirty, gl, draws].      *)
(***************************************************************************)
TextureRenderer_new(program_id) ==
    LET mesh == Mesh_new(VertexAttributes_with(TRUE, TRUE, FALSE, TRUE))
    IN  [shader      |-> ShaderProgram_link(
                             ShaderProgram_create_fragment_shader(
                                 ShaderProgram_create_vertex_shader(
                                     ShaderProgram_new(program_id), program_id + 1, 1).shader,
                                 program_id + 2, 1).shader),
         mesh        |-> mesh,
         next_vertex |-> [i \in 1..mesh.attribs.vertex_size |-> 0],
         last_tex    |-> None,
         combined    |-> None,
         dirty       |-> FALSE,
         gl          |-> GlInit({program_id}),
         draws       |-> <<>>]

TextureRenderer_begin(tr, combined) ==
    [tr EXCEPT !.combined = Some(combined), !.gl.blend = TRUE]

\* TextureRenderer_flush without the `self.mesh.clear()` of line 717
TextureRenderer_flush_NoClear(tr) ==
    IF tr.last_tex = None \/ tr.combined = None THEN tr
    ELSE LET gl1 == Texture_bind(Unwrap(tr.last_tex), tr.gl)
             gl2 == ShaderProgram_set_uniform(tr.shader, gl1, "textureSampler", 0)
             r   == Mesh_render(tr.mesh, gl2, tr.draws, tr.shader, FALSE, "TRIANGLES",
                                Unwrap(tr.combined))
         IN  [tr EXCEPT !.mesh = r.mesh, !.gl = r.gl, !.draws = r.draws,
                        !.dirty = FALSE]

TextureRenderer_flush(tr) ==
    IF tr.last_tex = None \/ tr.combined = None THEN tr
    ELSE LET gl1 == Texture_bind(Unwrap(tr.last_tex), tr.gl)
             gl2 == ShaderProgram_set_uniform(tr.shader, gl1, "textureSampler", 0)
             r   == Mesh_render(tr.mesh, gl2, tr.draws, tr.shader, FALSE, "TRIANGLES",
                                Unwrap(tr.combined))
         IN  [tr EXCEPT !.mesh = Mesh_clear(r.mesh), !.gl = r.gl, !.draws = r.draws,
                        !.dirty = FALSE]

TextureRenderer_end(tr) ==
    LET tr1 == IF tr.dirty THEN TextureRenderer_flush(tr) ELSE tr
    IN  [tr1 EXCEPT !.gl.blend = FALSE, !.combined = None, !.last_tex = None]

TextureRenderer_tex_coord(tr, u, v) ==
    IF tr.mesh.attribs.has_tex_coords
    THEN LET offset == Mesh_get_vertex_offset(tr.mesh, "TEXCOORDS")
         IN  [tr EXCEPT !.next_vertex[offset + 1] = u, !.next_vertex[offset + 2] = v]
    ELSE tr

TextureRenderer_color(tr, r, g, b, a) ==
    IF tr.mesh.attribs.has_colors
    THEN LET offset == Mesh_get_vertex_offset(tr.mesh, "COLORS")
         IN  [tr EXCEPT !.next_vertex[offset + 1] = r, !.next_vertex[offset + 2] = g,
                        !.next_vertex[offset + 3] = b, !.next_vertex[offset + 4] = a]
    ELSE tr

TextureRenderer_vertex(tr, x, y, z) ==
    LET nv == [tr.next_vertex EXCEPT ![1] = x, ![2] = y, ![3] = z]
    IN  [tr EXCEPT !.mesh = Mesh_vertex(tr.mesh, nv).mesh,
                   !.next_vertex = [i \in 1..Len(nv) |-> 0]]

\* one corner: color(1,1,1,1); tex_coord(u, v); vertex(x, y, 0)
Corner(tr, x, y, u, v) ==
    TextureRenderer_vertex(
        TextureRenderer_tex_coord(
            TextureRenderer_color(tr, F32(1), F32(1), F32(1), F32(1)), u, v),
        x, y, F32(0))

\* EmitQuad with the texture coordinates of the second and fifth corner exchanged
EmitQuad_SwappedUV(tr, x, y, width, height, u, v, u2, v2) ==
    LET t1 == Corner(tr, x, y, u, v)
        t2 == Corner(t1, x, y + height, u2, v)
        t3 == Corner(t2, x + width, y + height, u2, v2)
        t4 == Corner(t3, x + width, y + height, u2, v2)
        t5 == Corner(t4, x + width, y, u, v2)
    IN  Corner(t5, x, y, u, v)

\* lines 751-774 of texture(): the six corners
EmitQuad(tr, x, y, width, height, u, v, u2, v2) ==
    LET t1 == Corner(tr, x, y, u, v)
        t2 == Corner(t1, x, y + height, u, v2)
        t3 == Corner(t2, x + width, y + height, u2, v2)
        t4 == Corner(t3, x + width, y + height, u2, v2)
        t5 == Corner(t4, x + width, y, u2, v)
    IN  Corner(t5, x, y, u, v)

\* TextureRenderer_texture without the `self.dirty = true` of line 749
TextureRenderer_texture_NoDirty(tr, tex, x, y, width, height, u, v, u2, v2) ==
    LET tr1 == IF tr.last_tex = None THEN [tr EXCEPT !.last_tex = Some(tex)] ELSE tr
        tr2 == IF tr1.last_tex # None /\ Unwrap(tr1.last_tex).id # tex.id
               THEN [TextureRenderer_flush(tr1) EXCEPT !.last_tex = Some(tex)]
               ELSE tr1
    IN  EmitQuad(tr2, x, y, width, height, u, v, u2, v2)

TextureRenderer_texture(tr, tex, x, y, width, height, u, v, u2, v2) ==
    LET tr1 == IF tr.last_tex = None THEN [tr EXCEPT !.last_tex = Some(tex)] ELSE tr
        tr2 == IF tr1.last_tex # None /\ Unwrap(tr1.last_tex).id # tex.id
               THEN [TextureRenderer_flush(tr1) EXCEPT !.last_tex = Some(tex)]
               ELSE tr1
        tr3 == [tr2 EXCEPT !.dirty = TRUE]
    IN  EmitQuad(tr3, x, y, width, height, u, v, u2, v2)

TextureRenderer_texture_xy(tr, tex, x, y) ==
    TextureRenderer_texture(tr, tex, x, y, tex.width, tex.height,
                            F32(0), F32(0), F32(1), F32(1))

(***************************************************************************)
(* src/src/camera.rs.  A Vector3<f32> is a triple of integers, or NaNVec   *)
(* when its components are not numbers; the operations called keep the     *)
(* vectors on the coordinate axes, where normalisation and the rotations   *)
(* by multiples of 90 degrees are exact.  A Matrix4<f32> is the term that  *)
(* computes it.  An f32 that may be infinite is [inf, val]: val when inf   *)
(* is false, else the infinity of the sign of val.                         *)
(***************************************************************************)
NaNVec == <<>>

Vec3(x, y, z) == <<x, y, z>>

VecAdd(a, b) ==
    IF a = NaNVec \/ b = NaNVec THEN NaNVec ELSE <<a[1] + b[1], a[2] + b[2], a[3] + b[3]>>

VecSub(a, b) ==
    IF a = NaNVec \/ b = NaNVec THEN NaNVec ELSE <<a[1] - b[1], a[2] - b[2], a[3] - b[3]>>

VecMul(a, k) == IF a = NaNVec THEN NaNVec ELSE <<a[1] * k, a[2] * k, a[3] * k>>

\* the result is <<d>>, or <<>> when it is not a number
VecDot(a, b) ==
    IF a = NaNVec \/ b = NaNVec THEN <<>> ELSE <<a[1] * b[1] + a[2] * b[2] + a[3] * b[3]>>

VecCross(a, b) ==
    IF a = NaNVec \/ b = NaNVec THEN NaNVec
    ELSE <<a[2] * b[3] - a[3] * b[2], a[3] * b[1] - a[1] * b[3], a[1] * b[2] - a[2] * b[1]>>

Sign(n) == IF n > 0 THEN 1 ELSE IF n < 0 THEN -1 ELSE 0

\* v / |v|: 0/0 for the zero vector; a vector on an axis becomes the unit
\* vector of its direction
VecNormalize(v) ==
    CASE v = NaNVec -> NaNVec
      [] v # NaNVec /\ v = <<0, 0, 0>> -> NaNVec
      [] v # NaNVec /\ Cardinality({i \in 1..3 : v[i] # 0}) = 1 ->
             <<Sign(v[1]), Sign(v[2]), Sign(v[3])>>

\* cos and sin of a multiple of 90 degrees
CosDeg(angle) == CASE angle % 360 = 0 -> 1 [] angle % 360 = 180 -> -1 [] OTHER -> 0
SinDeg(angle) == CASE angle % 360 = 90 -> 1 [] angle % 360 = 270 -> -1 [] OTHER -> 0

\* Basis3::from_axis_angle(axis, Deg(angle)).rotate_vector(v), axis a unit vector
RotateVector(axis, angle, v) ==
    IF axis = NaNVec \/ v = NaNVec THEN NaNVec
    ELSE LET c == CosDeg(angle)
             sn == SinDeg(angle)
             d == VecDot(axis, v)[1]
         IN  VecAdd(VecAdd(VecMul(v, c), VecMul(VecCross(axis, v), sn)),
                    VecMul(axis, d * (1 - c)))

Finite(n) == [inf |-> FALSE, val |-> n]
PosInf == [inf |-> TRUE, val |-> 1]

PerspectiveMatrix(fov, aspect, near, far) ==
    LET far_inf  == far.val > 0 /\ far.inf
        near_inf == near.val > 0 /\ near.inf
    IN  [op |-> "perspective", fov |-> fov, aspect |-> aspect,
         kind |-> IF far_inf THEN "far_inf" ELSE IF near_inf THEN "near_inf" ELSE "finite",
         near |-> near, far |-> far]

Camera_set_ortho(left, right, bottom, top, z_near, z_far) ==
    [op |-> "ortho", left |-> left, right |-> right, bottom |-> bottom, top |-> top,
     near |-> z_near, far |-> z_far]

LookAtRh(eye, center, up) == [op |-> "look_at_rh", eye |-> eye, center |-> center, up |-> up]

MatMul(a, b) == [op |-> "mul", a |-> a, b |-> b]

\* aspect is the quotient viewport_width / viewport_height, kept as the pair
Camera_update(cam) ==
    LET aspect == <<cam.viewport_width, cam.viewport_height>>
        projection ==
            IF cam.is_perspective
            THEN PerspectiveMatrix(cam.fov, aspect, cam.near, cam.far)
            ELSE Camera_set_ortho(<<"neg", <<"half", cam.viewport_width>>>>,
                                  <<"half", cam.viewport_width>>,
                                  <<"neg", <<"half", cam.viewport_height>>>>,
                                  <<"half", cam.viewport_height>>, cam.near, cam.far)
        tmp  == VecAdd(cam.position, cam.direction)
        view == LookAtRh(cam.position, tmp, cam.up)
    IN  [cam EXCEPT !.aspect = aspect, !.projection = projection, !.view = view,
                    !.combined = MatMul(projection, view)]

Camera_new(x, y, z, viewport_width, viewport_height) ==
    Camera_update(
        [position        |-> Vec3(x, y, z),
         direction       |-> Vec3(0, 0, -1),
         up              |-> Vec3(0, 1, 0),
         projection      |-> "zero",
         view            |-> "zero",
         combined        |-> "zero",
         viewport_width  |-> viewport_width,
         viewport_height |-> viewport_height,
         near            |-> Finite(-1),
         far             |-> Finite(1),
         fov             |-> 90,
         aspect          |-> <<viewport_width, viewport_height>>,
         is_perspective  |-> FALSE])

Camera_with_perspective(cam, near, far) ==
    Camera_update([cam EXCEPT !.near = near, !.far = far, !.is_perspective = TRUE])

Camera_normalize_up(cam) ==
    LET tmp == VecNormalize(VecCross(cam.direction, cam.up))
    IN  [cam EXCEPT !.up = VecNormalize(VecCross(tmp, cam.direction))]

\* tmp.eq(&Vector3::zero()) is false for a vector that is not a number, and so
\* are the comparisons of dot
Camera_look_at(cam, x, y, z) ==
    LET tmp == VecNormalize(VecSub(Vec3(x, y, z), cam.position))
    IN  IF tmp # NaNVec /\ tmp = <<0, 0, 0>> THEN cam
        ELSE LET dot == VecDot(tmp, cam.up)
                 up  == IF dot = <<1>> THEN VecMul(cam.direction, -1)
                        ELSE IF dot = <<-1>> THEN cam.direction
                        ELSE cam.up
             IN  Camera_normalize_up([cam EXCEPT !.up = up, !.direction = tmp])

Camera_rotate(cam, angle, axis) ==
    LET a == VecNormalize(axis)
    IN  Camera_update([cam EXCEPT !.direction = RotateVector(a, angle, cam.direction),
                                  !.up = RotateVector(a, angle, cam.up)])

Camera_translate(cam, x, y, z) ==
    Camera_update([cam EXCEPT !.position = VecAdd(cam.position, Vec3(x, y, z))])

(***************************************************************************)
(* The state.                                                              *)
(*   vbo, vboOp                  a stand-alone VertexBufferObject and the  *)
(*                               last method called on it                  *)
(*   attribs, vao, vaoOp,        a VertexAttributes value, the             *)
(*   vaoArg, vaoVerts, vaoDraw,  VertexArrayObject built from it, the last *)
(*   vaoPanicked                 method called, the data it was given (of  *)
(*                               vertex(), else empty), the vertex() calls *)
(*                               since the last clear(), the last draw     *)
(*                               call and whether a method panicked        *)
(*   shader, mesh, next_vertex,  the fields of a TextureRenderer           *)
(*   last_tex, combined, dirty                                             *)
(*   gl                          the OpenGL state                          *)
(*   draws                       the draw calls issued since the last      *)
(*                               begin()                                   *)
(*   calls                       the texture() calls made since the last   *)
(*                               begin() while the session was open        *)
(*   pending                     the textures the quads held by the mesh   *)
(*                               were submitted with, oldest first         *)
(*   flushed                     whether flush() was called since the last *)
(*                               begin()                                   *)
(*   ended                       whether the session begun last has ended  *)
(*   trOp                        the last method called, with its          *)
(*                               arguments                                 *)
(*   nOps                        the number of methods called              *)
(***************************************************************************)
VARIABLES vbo, vboOp,
          attribs, vao, vaoOp, vaoArg, vaoVerts, vaoDraw, vaoPanicked,
          shader, mesh, next_vertex, last_tex, combined, dirty,
          gl, draws, calls, pending, flushed, ended, trOp, nOps,
          sp,
          ms,
          mr,
          cam,
          tx

vboVars == <<vbo, vboOp>>
vaoVars == <<attribs, vao, vaoOp, vaoArg, vaoVerts, vaoDraw, vaoPanicked>>
trVars  == <<shader, mesh, next_vertex, last_tex, combined, dirty,
             gl, draws, calls, pending, flushed, ended, trOp, nOps>>
vars    == <<vboVars, vaoVars, trVars, sp, ms, mr, cam, tx>>

\* the f32 inputs: -(1 + 1/FloatDen) and 1 + 1/FloatDen
FloatVals == {-(FloatDen + 1), FloatDen + 1}

SeqsUpTo(S, n) == UNION {[1..k -> S] : k \in 0..n}

Layouts ==
    {VertexAttributes_with(p, c, n, t) : p \in BOOLEAN, c \in BOOLEAN, n \in BOOLEAN, t \in BOOLEAN}

NoDraw == [kind |-> "none", count |-> 0]

VboInit ==
    /\ vbo \in {VertexBufferObject_new(Usages[k]) : k \in 1..Len(Usages)}
    /\ vboOp = "new"

VaoInit ==
    /\ attribs \in Layouts
    /\ vao = VertexArrayObject_new(attribs)
    /\ vaoOp = "new"
    /\ vaoArg = <<>>
    /\ vaoVerts = 0
    /\ vaoDraw = NoDraw
    /\ vaoPanicked = FALSE

\* the objects a specification does not exercise are constructed and left alone
VboIdle ==
    /\ vbo = VertexBufferObject_new("POSITIONS")
    /\ vboOp = "new"

VaoIdle ==
    /\ attribs = VertexAttributes_with(TRUE, TRUE, FALSE, TRUE)
    /\ vao = VertexArrayObject_new(attribs)
    /\ vaoOp = "new"
    /\ vaoArg = <<>>
    /\ vaoVerts = 0
    /\ vaoDraw = NoDraw
    /\ vaoPanicked = FALSE

(***************************************************************************)
(* Calls on the stand-alone VertexBufferObject.                            *)
(***************************************************************************)
VboSetData ==
    \E data \in SeqsUpTo(FloatVals, MaxData) :
        /\ vbo' = VertexBufferObject_set_data(vbo, data)
        /\ vboOp' = "set_data"
        /\ UNCHANGED <<vaoVars, trVars, sp, ms, mr, cam, tx>>

VboAddDataSlice ==
    \E data \in SeqsUpTo(FloatVals, MaxData) :
        /\ Len(vbo.data) + Len(data) <= MaxData
        /\ vbo' = VertexBufferObject_add_data_slice(vbo, data)
        /\ vboOp' = "add_data_slice"
        /\ UNCHANGED <<vaoVars, trVars, sp, ms, mr, cam, tx>>

VboAddData ==
    \E data \in FloatVals :
        /\ Len(vbo.data) < MaxData
        /\ vbo' = VertexBufferObject_add_data(vbo, data)
        /\ vboOp' = "add_data"
        /\ UNCHANGED <<vaoVars, trVars, sp, ms, mr, cam, tx>>

VboClear ==
    /\ vbo' = VertexBufferObject_clear(vbo)
    /\ vboOp' = "clear"
    /\ UNCHANGED <<vaoVars, trVars, sp, ms, mr, cam, tx>>

VboBind ==
    /\ vbo' = VertexBufferObject_bind(vbo)
    /\ vboOp' = "bind"
    /\ UNCHANGED <<vaoVars, trVars, sp, ms, mr, cam, tx>>

(***************************************************************************)
(* Calls on the stand-alone VertexArrayObject.                             *)
(***************************************************************************)
\* a vertex of len components, component i (from 0) holding base + i
MkVertex(base, len) == [i \in 1..len |-> F32(base + i - 1)]

VertexBases == {10, 20}

VaoVertex ==
    \E base \in VertexBases, len \in {attribs.vertex_size - 1, attribs.vertex_size,
                                     attribs.vertex_size + 1} :
        /\ ~vaoPanicked
        /\ len >= 0
        /\ vaoVerts < MaxVerts
        /\ LET r == VertexArrayObject_vertex(vao, MkVertex(base, len))
           IN  /\ vao' = r.vao
               /\ vaoPanicked' = r.panicked
               /\ vaoVerts' = IF r.panicked THEN vaoVerts ELSE vaoVerts + 1
        /\ vaoOp' = "vertex"
        /\ vaoArg' = MkVertex(base, len)
        /\ UNCHANGED <<attribs, vaoDraw>>
        /\ UNCHANGED <<vboVars, trVars, sp, ms, mr, cam, tx>>

VaoClear ==
    /\ ~vaoPanicked
    /\ vao' = VertexArrayObject_clear(vao)
    /\ vaoVerts' = 0
    /\ vaoOp' = "clear"
    /\ vaoArg' = <<>>
    /\ UNCHANGED <<attribs, vaoDraw, vaoPanicked>>
    /\ UNCHANGED <<vboVars, trVars, sp, ms, mr, cam, tx>>

VaoBind ==
    /\ ~vaoPanicked
    /\ vao' = VertexArrayObject_bind(vao)
    /\ vaoOp' = "bind"
    /\ vaoArg' = <<>>
    /\ UNCHANGED <<attribs, vaoVerts, vaoDraw, vaoPanicked>>
    /\ UNCHANGED <<vboVars, trVars, sp, ms, mr, cam, tx>>

VaoRender ==
    /\ ~vaoPanicked
    /\ LET r == VertexArrayObject_render(vao)
       IN  /\ vaoPanicked' = r.panicked
           /\ vaoDraw' = IF r.panicked THEN vaoDraw ELSE [kind |-> r.kind, count |-> r.count]
    /\ vaoOp' = "render"
    /\ vaoArg' = <<>>
    /\ UNCHANGED <<attribs, vao, vaoVerts>>
    /\ UNCHANGED <<vboVars, trVars, sp, ms, mr, cam, tx>>

VaoUnbind ==
    /\ ~vaoPanicked
    /\ vao' = VertexArrayObject_unbind(vao)
    /\ vaoOp' = "unbind"
    /\ vaoArg' = <<>>
    /\ UNCHANGED <<attribs, vaoVerts, vaoDraw, vaoPanicked>>
    /\ UNCHANGED <<vboVars, trVars, sp, ms, mr, cam, tx>>

(***************************************************************************)
(* Calls on the TextureRenderer.                                           *)
(***************************************************************************)
T1 == [id |-> 1, width |-> F32(4), height |-> F32(2)]
T2 == [id |-> 2, width |-> F32(2), height |-> F32(6)]
Textures == {T1, T2}

Matrices == {"M1", "M2"}

\* the arguments x, y, width, height, u, v, u2, v2 of texture()
G1 == <<F32(10), F32(20), F32(100), F32(50), F32(0), F32(0), F32(1), F32(1)>>
G2 == <<F32(-3), F32(5), F32(7), F32(2), 1, F32(0), F32(1), 1>>
Geoms == {G1, G2}

\* the arguments x, y of texture_xy()
XY == <<F32(1), F32(2)>>

TR == [shader |-> shader, mesh |-> mesh, next_vertex |-> next_vertex,
       last_tex |-> last_tex, combined |-> combined, dirty |-> dirty,
       gl |-> gl, draws |-> draws]

SetTR(tr) ==
    /\ shader' = tr.shader
    /\ mesh' = tr.mesh
    /\ next_vertex' = tr.next_vertex
    /\ last_tex' = tr.last_tex
    /\ combined' = tr.combined
    /\ dirty' = tr.dirty
    /\ gl' = tr.gl
    /\ draws' = tr.draws

Op(name, m, tex, args) == [name |-> name, m |-> m, tex |-> tex, args |-> args]

\* the quads the mesh holds: six vertices of three position components each
QuadsHeld(m) == Len(m.vao.vbos[1].data) \div 18

\* the textures the quads of the mesh were submitted with, oldest first, after
\* an operation that left the mesh as m and submitted the quads of new
PendingAfter(m, new) ==
    LET kept == QuadsHeld(m) - Len(new)
    IN  (IF kept = Len(pending) THEN pending ELSE <<>>) \o new

TrInitWith(tr) ==
    /\ shader = tr.shader
    /\ mesh = tr.mesh
    /\ next_vertex = tr.next_vertex
    /\ last_tex = tr.last_tex
    /\ combined = tr.combined
    /\ dirty = tr.dirty
    /\ gl = tr.gl
    /\ draws = tr.draws
    /\ calls = <<>>
    /\ pending = <<>>
    /\ flushed = FALSE
    /\ ended = FALSE
    /\ trOp = Op("new", "none", 0, <<>>)
    /\ nOps = 0

TrInit == TrInitWith(TextureRenderer_new(1))

TrBegin ==
    \E m \in Matrices :
        /\ nOps < MaxOps
        /\ SetTR([TextureRenderer_begin(TR, m) EXCEPT !.draws = <<>>])
        /\ calls' = <<>>
        /\ flushed' = FALSE
        /\ ended' = FALSE
        /\ trOp' = Op("begin", m, 0, <<>>)
        /\ nOps' = nOps + 1
        /\ UNCHANGED pending
        /\ UNCHANGED <<vboVars, vaoVars, sp, ms, mr, cam, tx>>

TrFlush ==
    /\ nOps < MaxOps
    /\ SetTR(TextureRenderer_flush(TR))
    /\ pending' = PendingAfter(mesh', <<>>)
    /\ flushed' = (flushed \/ combined # None)
    /\ trOp' = Op("flush", "none", 0, <<>>)
    /\ nOps' = nOps + 1
    /\ UNCHANGED <<calls, ended>>
    /\ UNCHANGED <<vboVars, vaoVars, sp, ms, mr, cam, tx>>

TrEnd ==
    /\ nOps < MaxOps
    /\ SetTR(TextureRenderer_end(TR))
    /\ pending' = PendingAfter(mesh', <<>>)
    /\ ended' = (ended \/ combined # None)
    /\ trOp' = Op("end", "none", 0, <<>>)
    /\ nOps' = nOps + 1
    /\ UNCHANGED <<calls, flushed>>
    /\ UNCHANGED <<vboVars, vaoVars, sp, ms, mr, cam, tx>>

Called(tex, args) == [tex |-> tex.id, args |-> args]

TrTexture ==
    \E tex \in Textures, g \in Geoms :
        /\ nOps < MaxOps
        /\ SetTR(TextureRenderer_texture(TR, tex, g[1], g[2], g[3], g[4], g[5], g[6], g[7], g[8]))
        /\ calls' = IF combined # None THEN Append(calls, Called(tex, g)) ELSE calls
        /\ pending' = PendingAfter(mesh', <<tex.id>>)
        /\ trOp' = Op("texture", "none", tex.id, g)
        /\ nOps' = nOps + 1
        /\ UNCHANGED <<flushed, ended>>
        /\ UNCHANGED <<vboVars, vaoVars, sp, ms, mr, cam, tx>>

TrTextureXY ==
    \E tex \in Textures :
        LET g == <<XY[1], XY[2], tex.width, tex.height, F32(0), F32(0), F32(1), F32(1)>>
        IN  /\ nOps < MaxOps
            /\ SetTR(TextureRenderer_texture_xy(TR, tex, XY[1], XY[2]))
            /\ calls' = IF combined # None THEN Append(calls, Called(tex, g)) ELSE calls
            /\ pending' = PendingAfter(mesh', <<tex.id>>)
            /\ trOp' = Op("texture_xy", "none", tex.id, XY)
            /\ nOps' = nOps + 1
            /\ UNCHANGED <<flushed, ended>>
            /\ UNCHANGED <<vboVars, vaoVars, sp, ms, mr, cam, tx>>

(***************************************************************************)
(* Calls on the stand-alone ShaderProgram.  sp holds                       *)
(*   shader    the ShaderProgram                                           *)
(*   gl        the OpenGL state                                            *)
(*   created   the shader objects glCreateShader returned                  *)
(*   compiled  those of them that compiled                                 *)
(*   attached  the shader objects attached to the program                  *)
(*   link_ok   whether the last glLinkProgram succeeded                    *)
(*   asked     how often glGetUniformLocation was called for each name     *)
(*   panicked  whether a method panicked                                   *)
(*   op        the last method called, with what the GL answered and the   *)
(*             uniform name it was given                                   *)
(*   n         the number of methods called                                *)
(***************************************************************************)
SpNames == UniformNames \cup {"nosuch"} \cup NamesWithNul

SpOp(name, id, status, uname) == [name |-> name, id |-> id, status |-> status, uname |-> uname]

ShaderInit ==
    sp = [shader   |-> ShaderProgram_new(1),
          gl       |-> GlInit({1}),
          created  |-> {},
          compiled |-> {},
          attached |-> {},
          link_ok  |-> FALSE,
          asked    |-> [name \in SpNames |-> 0],
          panicked |-> FALSE,
          op       |-> SpOp("new", 0, 0, ""),
          n        |-> 0]

\* what a create_*_shader call whose result is r leaves, the GL having answered
\* id and status
SpCreated(r, opname, id, status) ==
    [sp EXCEPT !.shader   = r.shader,
               !.created  = @ \cup ({id} \ {0}),
               !.compiled = @ \cup (IF id # 0 /\ status # 0 THEN {id} ELSE {}),
               !.attached = @ \cup (IF r.attached THEN {id} ELSE {}),
               !.panicked = r.panicked,
               !.op       = SpOp(opname, id, status, ""),
               !.n        = @ + 1]

SpCreateVertexShader ==
    \E id \in {0, sp.n + 1}, status \in {0, 1} :
        /\ ~sp.panicked
        /\ sp.n < MaxShaderOps
        /\ sp' = SpCreated(ShaderProgram_create_vertex_shader(sp.shader, id, status),
                           "create_vertex_shader", id, status)
        /\ UNCHANGED <<vboVars, vaoVars, trVars, ms, mr, cam, tx>>

SpCreateFragmentShader ==
    \E id \in {0, sp.n + 1}, status \in {0, 1} :
        /\ ~sp.panicked
        /\ sp.n < MaxShaderOps
        /\ sp' = SpCreated(ShaderProgram_create_fragment_shader(sp.shader, id, status),
                           "create_fragment_shader", id, status)
        /\ UNCHANGED <<vboVars, vaoVars, trVars, ms, mr, cam, tx>>

SpLink ==
    \E status \in {0, 1} :
        /\ ~sp.panicked
        /\ sp.n < MaxShaderOps
        /\ LET r == ShaderProgram_link_status(sp.shader, status)
           IN  sp' = [sp EXCEPT !.shader   = r.shader,
                                !.attached = @ \ r.detached,
                                !.link_ok  = (status # 0),
                                !.panicked = r.panicked,
                                !.op       = SpOp("link", 0, status, ""),
                                !.n        = @ + 1]
        /\ UNCHANGED <<vboVars, vaoVars, trVars, ms, mr, cam, tx>>

SpBind ==
    /\ ~sp.panicked
    /\ sp.n < MaxShaderOps
    /\ sp' = [sp EXCEPT !.gl = ShaderProgram_bind(sp.shader, sp.gl),
                        !.op = SpOp("bind", 0, 0, ""),
                        !.n  = @ + 1]
    /\ UNCHANGED <<vboVars, vaoVars, trVars, ms, mr, cam, tx>>

SpUnbind ==
    /\ ~sp.panicked
    /\ sp.n < MaxShaderOps
    /\ sp' = [sp EXCEPT !.gl = ShaderProgram_unbind(sp.shader, sp.gl),
                        !.op = SpOp("unbind", 0, 0, ""),
                        !.n  = @ + 1]
    /\ UNCHANGED <<vboVars, vaoVars, trVars, ms, mr, cam, tx>>

\* what a set_uniform_* call with name and val leaves
SpUniformSet(opname, name, val) ==
    LET c == ShaderProgram_check_uniform(sp.shader, name)
    IN  [sp EXCEPT !.gl          = ShaderProgram_set_uniform(sp.shader, sp.gl, name, val),
                   !.asked[name] = IF c.asked THEN @ + 1 ELSE @,
                   !.panicked    = c.panicked,
                   !.op          = SpOp(opname, 0, 0, name),
                   !.n           = @ + 1]

SpSetUniformMat4f ==
    \E name \in SpNames, val \in Matrices :
        /\ ~sp.panicked
        /\ sp.n < MaxShaderOps
        /\ sp' = SpUniformSet("set_uniform_mat4f", name, val)
        /\ UNCHANGED <<vboVars, vaoVars, trVars, ms, mr, cam, tx>>

SpSetUniform1f32 ==
    \E name \in SpNames, val \in FloatVals :
        /\ ~sp.panicked
        /\ sp.n < MaxShaderOps
        /\ sp' = SpUniformSet("set_uniform1f32", name, val)
        /\ UNCHANGED <<vboVars, vaoVars, trVars, ms, mr, cam, tx>>

SpSetUniform1i32 ==
    \E name \in SpNames, val \in {0, 1} :
        /\ ~sp.panicked
        /\ sp.n < MaxShaderOps
        /\ sp' = SpUniformSet("set_uniform1i32", name, val)
        /\ UNCHANGED <<vboVars, vaoVars, trVars, ms, mr, cam, tx>>

(***************************************************************************)
(* Calls on the stand-alone Mesh and on the ShaderProgram it is rendered   *)
(* with.  ms holds                                                         *)
(*   mesh      the Mesh                                                    *)
(*   shader    the ShaderProgram given to render()                         *)
(*   gl        the OpenGL state                                            *)
(*   draws     the draw calls issued                                       *)
(*   verts     the vertex() calls since the last clear()                   *)
(*   panicked  whether a method panicked                                   *)
(*   op        the last method called, with its arguments                  *)
(*   n         the number of methods called                                *)
(***************************************************************************)
\* the primitive and proj_model_view arguments of render()
RenderArgs == {<<"TRIANGLES", "M1">>, <<"LINES", "M2">>}

MsOp(name, bind_externally, primitive, m) ==
    [name |-> name, bind_externally |-> bind_externally, primitive |-> primitive, m |-> m]

MsNew(a) ==
    [mesh     |-> Mesh_new(a),
     shader   |-> TextureRenderer_new(1).shader,
     gl       |-> GlInit({1}),
     draws    |-> <<>>,
     verts    |-> 0,
     panicked |-> FALSE,
     op       |-> MsOp("new", FALSE, "none", "none"),
     n        |-> 0]

MeshInit == ms \in {MsNew(a) : a \in Layouts}

MeshIdle == ms = MsNew(VertexAttributes_with(TRUE, TRUE, FALSE, FALSE))

MsVertex ==
    \E base \in {10 * (ms.verts + 1)} :
        /\ ~ms.panicked
        /\ ms.n < MaxMeshOps
        /\ LET r == Mesh_vertex(ms.mesh, MkVertex(base, ms.mesh.attribs.vertex_size))
           IN  ms' = [ms EXCEPT !.mesh     = r.mesh,
                                !.verts    = IF r.panicked THEN @ ELSE @ + 1,
                                !.panicked = r.panicked,
                                !.op       = MsOp("vertex", FALSE, "none", "none"),
                                !.n        = @ + 1]
        /\ UNCHANGED <<vboVars, vaoVars, trVars, sp, mr, cam, tx>>

MsClear ==
    /\ ~ms.panicked
    /\ ms.n < MaxMeshOps
    /\ ms' = [ms EXCEPT !.mesh  = Mesh_clear(ms.mesh),
                        !.verts = 0,
                        !.op    = MsOp("clear", FALSE, "none", "none"),
                        !.n     = @ + 1]
    /\ UNCHANGED <<vboVars, vaoVars, trVars, sp, mr, cam, tx>>

MsRender ==
    \E bind_externally \in BOOLEAN, a \in RenderArgs :
        /\ ~ms.panicked
        /\ ms.n < MaxMeshOps
        /\ LET r == Mesh_render(ms.mesh, ms.gl, ms.draws, ms.shader, bind_externally,
                                a[1], a[2])
           IN  ms' = [ms EXCEPT !.mesh     = r.mesh,
                                !.gl       = r.gl,
                                !.draws    = r.draws,
                                !.panicked = r.panicked,
                                !.op       = MsOp("render", bind_externally, a[1], a[2]),
                                !.n        = @ + 1]
        /\ UNCHANGED <<vboVars, vaoVars, trVars, sp, mr, cam, tx>>

\* the caller binds the shader itself, to render with bind_externally
MsShaderBind ==
    /\ ~ms.panicked
    /\ ms.n < MaxMeshOps
    /\ ms' = [ms EXCEPT !.gl = ShaderProgram_bind(ms.shader, ms.gl),
                        !.op = MsOp("shader.bind", FALSE, "none", "none"),
                        !.n  = @ + 1]
    /\ UNCHANGED <<vboVars, vaoVars, trVars, sp, mr, cam, tx>>

MsShaderUnbind ==
    /\ ~ms.panicked
    /\ ms.n < MaxMeshOps
    /\ ms' = [ms EXCEPT !.gl = ShaderProgram_unbind(ms.shader, ms.gl),
                        !.op = MsOp("shader.unbind", FALSE, "none", "none"),
                        !.n  = @ + 1]
    /\ UNCHANGED <<vboVars, vaoVars, trVars, sp, mr, cam, tx>>

(***************************************************************************)
(* Calls on the MeshRenderer.  mr holds                                    *)
(*   r         the MeshRenderer                                            *)
(*   gl        the OpenGL state                                            *)
(*   draws     the draw calls issued                                       *)
(*   staged    the colour given to the last color() call since the last    *)
(*             vertex() or clear(), zero when there was none               *)
(*   panicked  whether a method panicked                                   *)
(*   op        the last method called, with its arguments                  *)
(*   n         the number of methods called                                *)
(***************************************************************************)
Colors == {<<F32(1), F32(0), F32(0), F32(1)>>, <<F32(0), F32(1), F32(1), F32(1)>>}

Positions == {<<F32(1), F32(2), F32(3)>>, <<F32(-4), F32(5), F32(0)>>}

\* the arguments of normal() and of tex_coord()
NormalArg == <<F32(0), F32(0), F32(1)>>
TexCoordArg == <<F32(1), F32(1)>>

NoColor == <<0, 0, 0, 0>>

MrOp(name, args) == [name |-> name, args |-> args]

MrInitWith(program_id) ==
    mr = [r        |-> MeshRenderer_new(program_id),
          gl       |-> GlInit({program_id}),
          draws    |-> <<>>,
          staged   |-> NoColor,
          panicked |-> FALSE,
          op       |-> MrOp("new", <<>>),
          n        |-> 0]

MrInit == MrInitWith(1)

MrColor ==
    \E c \in Colors :
        /\ ~mr.panicked
        /\ mr.n < MaxMrOps
        /\ mr' = [mr EXCEPT !.r      = MeshRenderer_color(mr.r, c[1], c[2], c[3], c[4]),
                            !.staged = c,
                            !.op     = MrOp("color", c),
                            !.n      = @ + 1]
        /\ UNCHANGED <<vboVars, vaoVars, trVars, sp, ms, cam, tx>>

MrNormal ==
    /\ ~mr.panicked
    /\ mr.n < MaxMrOps
    /\ mr' = [mr EXCEPT !.r  = MeshRenderer_normal(mr.r, NormalArg[1], NormalArg[2], NormalArg[3]),
                        !.op = MrOp("normal", NormalArg),
                        !.n  = @ + 1]
    /\ UNCHANGED <<vboVars, vaoVars, trVars, sp, ms, cam, tx>>

MrTexCoord ==
    /\ ~mr.panicked
    /\ mr.n < MaxMrOps
    /\ mr' = [mr EXCEPT !.r  = MeshRenderer_tex_coord(mr.r, TexCoordArg[1], TexCoordArg[2]),
                        !.op = MrOp("tex_coord", TexCoordArg),
                        !.n  = @ + 1]
    /\ UNCHANGED <<vboVars, vaoVars, trVars, sp, ms, cam, tx>>

MrVertex ==
    \E p \in Positions :
        /\ ~mr.panicked
        /\ mr.n < MaxMrOps
        /\ mr' = [mr EXCEPT !.r      = MeshRenderer_vertex(mr.r, p[1], p[2], p[3]),
                            !.staged = NoColor,
                            !.op     = MrOp("vertex", p),
                            !.n      = @ + 1]
        /\ UNCHANGED <<vboVars, vaoVars, trVars, sp, ms, cam, tx>>

MrClear ==
    /\ ~mr.panicked
    /\ mr.n < MaxMrOps
    /\ mr' = [mr EXCEPT !.r      = MeshRenderer_clear(mr.r),
                        !.staged = NoColor,
                        !.op     = MrOp("clear", <<>>),
                        !.n      = @ + 1]
    /\ UNCHANGED <<vboVars, vaoVars, trVars, sp, ms, cam, tx>>

MrRender ==
    \E a \in RenderArgs :
        /\ ~mr.panicked
        /\ mr.n < MaxMrOps
        /\ LET r == MeshRenderer_render(mr.r, mr.gl, mr.draws, a[2], a[1])
           IN  mr' = [mr EXCEPT !.r        = r.mr,
                                !.gl       = r.gl,
                                !.draws    = r.draws,
                                !.panicked = r.panicked,
                                !.op       = MrOp("render", a),
                                !.n        = @ + 1]
        /\ UNCHANGED <<vboVars, vaoVars, trVars, sp, ms, cam, tx>>

(***************************************************************************)
(* Calls on the Camera.  cam holds                                         *)
(*   c    the Camera                                                       *)
(*   op   the last method called, with its arguments                       *)
(*   n    the number of methods called                                     *)
(***************************************************************************)
\* the targets of look_at(), relative to the position of the camera
LookOffsets == {<<0, 0, 0>>, <<2, 0, 0>>, <<0, 3, 0>>, <<0, -1, 0>>, <<0, 0, -5>>, <<0, 0, 1>>}

RotateAngles == {90, 180}

RotateAxes == {<<0, 1, 0>>, <<2, 0, 0>>, <<0, 0, -1>>}

TranslateArgs == {<<1, 0, 0>>, <<0, -2, 3>>}

\* the arguments near, far of with_perspective()
PerspectiveArgs == {<<Finite(1), Finite(100)>>, <<Finite(1), PosInf>>}

CamOp(name, args) == [name |-> name, args |-> args]

CamInit ==
    cam = [c  |-> Camera_new(0, 0, 0, 800, 600),
           op |-> CamOp("new", <<0, 0, 0, 800, 600>>),
           n  |-> 0]

CamWithPerspective ==
    \E a \in PerspectiveArgs :
        /\ cam.n < MaxCamOps
        /\ cam' = [c  |-> Camera_with_perspective(cam.c, a[1], a[2]),
                   op |-> CamOp("with_perspective", a),
                   n  |-> cam.n + 1]
        /\ UNCHANGED <<vboVars, vaoVars, trVars, sp, ms, mr, tx>>

CamLookAt ==
    \E off \in LookOffsets :
        LET t == VecAdd(cam.c.position, off)
        IN  /\ cam.n < MaxCamOps
            /\ cam.c.position # NaNVec
            /\ cam' = [c  |-> Camera_look_at(cam.c, t[1], t[2], t[3]),
                       op |-> CamOp("look_at", t),
                       n  |-> cam.n + 1]
            /\ UNCHANGED <<vboVars, vaoVars, trVars, sp, ms, mr, tx>>

CamRotate ==
    \E angle \in RotateAngles, axis \in RotateAxes :
        /\ cam.n < MaxCamOps
        /\ cam' = [c  |-> Camera_rotate(cam.c, angle, axis),
                   op |-> CamOp("rotate", <<angle, axis>>),
                   n  |-> cam.n + 1]
        /\ UNCHANGED <<vboVars, vaoVars, trVars, sp, ms, mr, tx>>

CamTranslate ==
    \E d \in TranslateArgs :
        /\ cam.n < MaxCamOps
        /\ cam' = [c  |-> Camera_translate(cam.c, d[1], d[2], d[3]),
                   op |-> CamOp("translate", d),
                   n  |-> cam.n + 1]
        /\ UNCHANGED <<vboVars, vaoVars, trVars, sp, ms, mr, tx>>

(***************************************************************************)
(* Calls on Texture.  tx holds                                             *)
(*   src    the texture last created from a decoded image, or the          *)
(*          receiver of the last multiply()                                *)
(*   out    the texture the last multiply() returned, if any               *)
(*   store  the image data of the GL texture objects                       *)
(*   op     the last function called, with its arguments                   *)
(*   n      the number of textures created                                 *)
(***************************************************************************)
Red   == <<255, 0, 10, 255>>
Grey  == <<3, 200, 7, 128>>
Clear == <<90, 91, 92, 0>>

\* the decoded images: 1x1, 1x2 and 2x2
Images == {<< <<Red>> >>, << <<Red>>, <<Grey>> >>, << <<Red, Grey>>, <<Clear, Red>> >>}

\* the arguments r, g, b, a of multiply()
MultiplyArgs == {<<F32(1), F32(1), F32(1), F32(1)>>, <<0, 0, 0, F32(1)>>,
                 <<F32(2), 1, F32(1), 1>>}

TxOp(name, args) == [name |-> name, args |-> args]

TexInit ==
    LET r == Texture_from_image(<< <<Red>>, <<Grey>> >>, 1, <<>>)
    IN  tx = [src |-> r.tex, out |-> None, store |-> r.store,
              op |-> TxOp("from_image", <<>>), n |-> 1]

TxFromImage ==
    \E img \in Images :
        LET r == Texture_from_image(img, tx.n + 1, tx.store)
        IN  /\ tx.n < MaxTexOps
            /\ tx' = [src |-> r.tex, out |-> None, store |-> r.store,
                      op |-> TxOp("from_image", <<>>), n |-> tx.n + 1]
            /\ UNCHANGED <<vboVars, vaoVars, trVars, sp, ms, mr, cam>>

\* multiply() on the source texture, or on the texture multiply() returned
TxMultiply ==
    \E a \in MultiplyArgs, recv \in {tx.src} \cup {tx.out[i] : i \in 1..Len(tx.out)} :
        LET r == Texture_multiply(recv, a[1], a[2], a[3], a[4], tx.n + 1, tx.store)
        IN  /\ tx.n < MaxTexOps
            /\ tx' = [src |-> recv, out |-> Some(r.tex), store |-> r.store,
                      op |-> TxOp("multiply", a), n |-> tx.n + 1]
            /\ UNCHANGED <<vboVars, vaoVars, trVars, sp, ms, mr, cam>>

(***************************************************************************)
(* A TextureRenderer and a MeshRenderer used on one graphics context: the  *)
(* MeshRenderer mr.r, of program CtxProgram, renders in the GL state gl of *)
(* the TextureRenderer.  mr.draws holds the draw call of its last render.  *)
(***************************************************************************)
CtxProgram == 4

CtxInit ==
    /\ TrInitWith([TextureRenderer_new(1) EXCEPT !.gl = GlInit({1, CtxProgram})])
    /\ MrInitWith(CtxProgram)

CtxMeshRendererRender ==
    \E a \in RenderArgs :
        /\ nOps < MaxOps
        /\ ~mr.panicked
        /\ LET r == MeshRenderer_render(mr.r, gl, <<>>, a[2], a[1])
           IN  /\ gl' = r.gl
               /\ mr' = [mr EXCEPT !.r        = r.mr,
                                    !.draws    = r.draws,
                                    !.panicked = r.panicked,
                                    !.op       = MrOp("render", a)]
        /\ trOp' = Op("MeshRenderer::render", a[2], 0, <<>>)
        /\ nOps' = nOps + 1
        /\ UNCHANGED <<shader, mesh, next_vertex, last_tex, combined, dirty, draws,
                       calls, pending, flushed, ended>>
        /\ UNCHANGED <<vboVars, vaoVars, sp, ms, cam, tx>>

(***************************************************************************)
(* The specifications: one per object under test.                          *)
(***************************************************************************)
NextVbo ==
    \/ VboSetData
    \/ VboAddDataSlice
    \/ VboAddData
    \/ VboClear
    \/ VboBind

NextVao ==
    \/ VaoVertex
    \/ VaoClear
    \/ VaoBind
    \/ VaoRender
    \/ VaoUnbind

NextShader ==
    \/ SpCreateVertexShader
    \/ SpCreateFragmentShader
    \/ SpLink
    \/ SpBind
    \/ SpUnbind
    \/ SpSetUniformMat4f
    \/ SpSetUniform1f32
    \/ SpSetUniform1i32

NextMesh ==
    \/ MsVertex
    \/ MsClear
    \/ MsRender
    \/ MsShaderBind
    \/ MsShaderUnbind

NextMr ==
    \/ MrColor
    \/ MrNormal
    \/ MrTexCoord
    \/ MrVertex
    \/ MrClear
    \/ MrRender

NextCam ==
    \/ CamWithPerspective
    \/ CamLookAt
    \/ CamRotate
    \/ CamTranslate

NextTex ==
    \/ TxFromImage
    \/ TxMultiply

NextCtx ==
    \/ TrBegin
    \/ TrFlush
    \/ TrEnd
    \/ TrTexture
    \/ TrTextureXY
    \/ CtxMeshRendererRender

Next ==
    \/ TrBegin
    \/ TrFlush
    \/ TrEnd
    \/ TrTexture
    \/ TrTextureXY

InitVbo == VboInit /\ VaoIdle /\ TrInit /\ ShaderInit /\ MeshIdle /\ MrInit /\ CamInit /\ TexInit
InitVao == VboIdle /\ VaoInit /\ TrInit /\ ShaderInit /\ MeshIdle /\ MrInit /\ CamInit /\ TexInit
Init    == VboIdle /\ VaoIdle /\ TrInit /\ ShaderInit /\ MeshIdle /\ MrInit /\ CamInit /\ TexInit
InitShader == VboIdle /\ VaoIdle /\ TrInit /\ ShaderInit /\ MeshIdle /\ MrInit /\ CamInit /\ TexInit
InitMesh == VboIdle /\ VaoIdle /\ TrInit /\ ShaderInit /\ MeshInit /\ MrInit /\ CamInit /\ TexInit
InitMr == VboIdle /\ VaoIdle /\ TrInit /\ ShaderInit /\ MeshIdle /\ MrInit /\ CamInit /\ TexInit
InitCam == VboIdle /\ VaoIdle /\ TrInit /\ ShaderInit /\ MeshIdle /\ MrInit /\ CamInit /\ TexInit
InitTex == VboIdle /\ VaoIdle /\ TrInit /\ ShaderInit /\ MeshIdle /\ MrInit /\ CamInit /\ TexInit
InitCtx == VboIdle /\ VaoIdle /\ CtxInit /\ ShaderInit /\ MeshIdle /\ CamInit /\ TexInit

SpecVbo == InitVbo /\ [][NextVbo]_vars
SpecVao == InitVao /\ [][NextVao]_vars
Spec    == Init /\ [][Next]_vars
SpecShader == InitShader /\ [][NextShader]_vars
SpecMesh == InitMesh /\ [][NextMesh]_vars
SpecMr == InitMr /\ [][NextMr]_vars
SpecCam == InitCam /\ [][NextCam]_vars
SpecTex == InitTex /\ [][NextTex]_vars
SpecCtx == InitCtx /\ [][NextCtx]_vars

(***************************************************************************)
(* What the properties below speak of.                                     *)
(***************************************************************************)
Last(seq) == seq[Len(seq)]

\* the vertices held by position, colour and texture coordinate buffers
Vertices(pos, col, uv) ==
    [j \in 1..(Len(pos) \div 3) |->
        [pos   |-> SubSeq(pos, 3 * j - 2, 3 * j),
         color |-> SubSeq(col, 4 * j - 3, 4 * j),
         uv    |-> SubSeq(uv, 2 * j - 1, 2 * j)]]

\* the buffers hold whole vertices, as many in each
WholeVertices(pos, col, uv) ==
    \E n \in 0..Len(pos) : Len(pos) = 3 * n /\ Len(col) = 4 * n /\ Len(uv) = 2 * n

\* the values held by the buffers of the mesh, the index buffer last
MeshData(m) ==
    [k \in 1..Len(m.vao.vbos) |-> m.vao.vbos[k].data] \o <<m.vao.vbo_indices.data>>

MeshVertices(m) ==
    Vertices(m.vao.vbos[1].data, m.vao.vbos[2].data, m.vao.vbos[3].data)

MeshWhole(m) ==
    WholeVertices(m.vao.vbos[1].data, m.vao.vbos[2].data, m.vao.vbos[3].data)

MeshEmpty(m) == \A k \in 1..Len(MeshData(m)) : MeshData(m)[k] = <<>>

\* the vertices in the buffer stores a draw call reads
DrawVertices(d) == Vertices(d.stores[1], d.stores[2], d.stores[3])

DrawWhole(d) == WholeVertices(d.stores[1], d.stores[2], d.stores[3])

\* a vertex at (px, py, 0) with colour (1, 1, 1, 1) and texture coordinate (pu, pv)
WhiteVertex(px, py, pu, pv) ==
    [pos   |-> <<px, py, F32(0)>>,
     color |-> <<F32(1), F32(1), F32(1), F32(1)>>,
     uv    |-> <<pu, pv>>]

\* the six vertices of the quad of texture(tex, x, y, w, h, u, v, u2, v2)
QuadVertices(a) ==
    LET x == a[1]  y == a[2]  w == a[3]  h == a[4]
        u == a[5]  v == a[6]  u2 == a[7]  v2 == a[8]
    IN  <<WhiteVertex(x, y, u, v),
          WhiteVertex(x, y + h, u, v2),
          WhiteVertex(x + w, y + h, u2, v2),
          WhiteVertex(x + w, y + h, u2, v2),
          WhiteVertex(x + w, y, u2, v),
          WhiteVertex(x, y, u, v)>>

\* the maximal runs of consecutive calls with the same texture
RECURSIVE RunsOf(_)
RunsOf(cs) ==
    IF cs = <<>> THEN <<>>
    ELSE LET rest == RunsOf(Tail(cs))
         IN  IF rest # <<>> /\ rest[1][1].tex = cs[1].tex
             THEN <<<<cs[1]>> \o rest[1]>> \o Tail(rest)
             ELSE <<<<cs[1]>>>> \o rest

RECURSIVE RunVertices(_)
RunVertices(run) ==
    IF run = <<>> THEN <<>> ELSE QuadVertices(run[1].args) \o RunVertices(Tail(run))

(***************************************************************************)
(* C1.  When a session has ended in which flush() was not called, the      *)
(* draw calls it issued are one per maximal run of consecutive texture()   *)
(* calls with the same texture, bound to the runs' textures in run order.  *)
(***************************************************************************)
C1_DrawCallPerRun ==
    (ended /\ ~flushed) =>
        [i \in 1..Len(draws) |-> draws[i].texture]
            = [i \in 1..Len(RunsOf(calls)) |-> RunsOf(calls)[i][1].tex]

(***************************************************************************)
(* C2.  In an open session a texture() call with another texture than the  *)
(* current one issues one draw call, of the geometry held by the mesh,     *)
(* with the previous texture bound, and leaves only the new quad in the    *)
(* mesh; and, while flush() was not called, the i-th draw call of the      *)
(* session draws exactly the 6*k vertices of the k quads of the i-th run.  *)
(***************************************************************************)
C2_FlushOnChange ==
    (trOp'.name = "texture" /\ combined # None /\ last_tex # None
        /\ Unwrap(last_tex).id # trOp'.tex)
    => /\ Len(draws') = Len(draws) + 1
       /\ Last(draws').texture = Unwrap(last_tex).id
       /\ DrawVertices(Last(draws')) = MeshVertices(mesh)
       /\ MeshVertices(mesh') = QuadVertices(trOp'.args)

C2_DrawHoldsItsRun ==
    ~flushed =>
        \A i \in 1..Len(draws) :
            /\ i <= Len(RunsOf(calls))
            /\ draws[i].count = 6 * Len(RunsOf(calls)[i])
            /\ DrawWhole(draws[i])
            /\ DrawVertices(draws[i]) = RunVertices(RunsOf(calls)[i])

C2_DrawsExactlyTheRun == [][C2_FlushOnChange]_vars /\ []C2_DrawHoldsItsRun

(***************************************************************************)
(* C3.  texture(tex, x, y, w, h, u, v, u2, v2) appends to the mesh exactly *)
(* the six vertices (x,y)(u,v); (x,y+h)(u,v2); (x+w,y+h)(u2,v2);           *)
(* (x+w,y+h)(u2,v2); (x+w,y)(u2,v); (x,y)(u,v), each with z = 0 and colour *)
(* (1,1,1,1): the mesh then holds what it held before, or nothing when the *)
(* call flushed it, followed by these six.  For (10,20,100,50,0,0,1,1) the *)
(* positions are (10,20),(10,70),(110,70),(110,70),(110,20),(10,20).       *)
(***************************************************************************)
C3_Appended ==
    trOp'.name = "texture" =>
        /\ MeshWhole(mesh')
        /\ \E before \in {MeshVertices(mesh), <<>>} :
               MeshVertices(mesh') = before \o QuadVertices(trOp'.args)
        /\ trOp'.args = <<F32(10), F32(20), F32(100), F32(50), F32(0), F32(0), F32(1), F32(1)>>
           => LET n == Len(MeshVertices(mesh'))
              IN  [i \in 1..6 |-> MeshVertices(mesh')[n - 6 + i].pos]
                    = << <<F32(10), F32(20), F32(0)>>, <<F32(10), F32(70), F32(0)>>,
                         <<F32(110), F32(70), F32(0)>>, <<F32(110), F32(70), F32(0)>>,
                         <<F32(110), F32(20), F32(0)>>, <<F32(10), F32(20), F32(0)>> >>

C3_SixVertices == [][C3_Appended]_vars

\* a texture() call has appended its quad to a mesh that held one
C3_Witness ==
    /\ trOp.name = "texture"
    /\ trOp.args = G1
    /\ Len(MeshVertices(mesh)) = 12
    /\ MeshVertices(mesh)[8].pos = <<F32(10), F32(70), F32(0)>>
    /\ MeshVertices(mesh)[8].uv = <<F32(0), F32(1)>>

(***************************************************************************)
(* C4.  After begin(transform) the transform is recorded, the current      *)
(* texture is none and blending is enabled, whatever was called before.    *)
(***************************************************************************)
C4_BeginOpens ==
    trOp.name = "begin" =>
        /\ combined = Some(trOp.m)
        /\ last_tex = None
        /\ gl.blend

(***************************************************************************)
(* C5.  After end(), from whatever state it was called in, the dirty flag  *)
(* is false, the mesh is empty, blending is disabled and the transform and *)
(* the current texture are none.                                           *)
(***************************************************************************)
C5_EndCloses ==
    trOp.name = "end" =>
        /\ ~dirty
        /\ MeshEmpty(mesh)
        /\ ~gl.blend
        /\ combined = None
        /\ last_tex = None

(***************************************************************************)
(* C6.  flush() without a current texture or without a transform issues no *)
(* draw call and leaves the mesh contents, the dirty flag, the current     *)
(* texture and the transform as they were; in every other state it issues  *)
(* exactly one draw call, with the current texture bound and the session   *)
(* transform, empties the mesh and sets the dirty flag to false.           *)
(***************************************************************************)
C6_Flush ==
    trOp'.name = "flush" =>
        IF last_tex = None \/ combined = None
        THEN /\ draws' = draws
             /\ MeshData(mesh') = MeshData(mesh)
             /\ dirty' = dirty
             /\ last_tex' = last_tex
             /\ combined' = combined
        ELSE /\ Len(draws') = Len(draws) + 1
             /\ SubSeq(draws', 1, Len(draws)) = draws
             /\ Last(draws').texture = Unwrap(last_tex).id
             /\ Last(draws').matrix = Unwrap(combined)
             /\ MeshEmpty(mesh')
             /\ ~dirty'

C6_FlushEffect == [][C6_Flush]_vars

\* flush() has drawn a quad
C6_Witness ==
    /\ trOp.name = "flush"
    /\ draws # <<>>
    /\ Last(draws).count > 0
    /\ DrawVertices(Last(draws)) = QuadVertices(G2)
    /\ MeshEmpty(mesh)

(***************************************************************************)
(* C7.  For each of the 16 layouts vertex_size is the sum of the component *)
(* counts of the enabled channels (POSITION 3, COLOR 4, NORMAL 3,          *)
(* TEXCOORD 2); the offsets of the enabled channels, taken in that order,  *)
(* are strictly increasing and the ranges [offset, offset + count) are     *)
(* pairwise disjoint and cover exactly [0, vertex_size).                   *)
(***************************************************************************)
ComponentCount(usage) ==
    CASE usage = "POSITIONS" -> 3
      [] usage = "COLORS"    -> 4
      [] usage = "NORMALS"   -> 3
      [] usage = "TEXCOORDS" -> 2

EnabledChannels(va) ==
    SelectSeq(<<"POSITIONS", "COLORS", "NORMALS", "TEXCOORDS">>,
              LAMBDA usage : \/ usage = "POSITIONS" /\ va.has_positions
                             \/ usage = "COLORS" /\ va.has_colors
                             \/ usage = "NORMALS" /\ va.has_normals
                             \/ usage = "TEXCOORDS" /\ va.has_tex_coords)

RECURSIVE SumCounts(_)
SumCounts(chs) == IF chs = <<>> THEN 0 ELSE ComponentCount(chs[1]) + SumCounts(Tail(chs))

C7_LayoutPartition ==
    LET e == EnabledChannels(attribs)
        off(i) == VertexAttributes_offset(attribs, e[i])
        range(i) == off(i)..(off(i) + ComponentCount(e[i]) - 1)
    IN  /\ attribs.vertex_size = SumCounts(e)
        /\ \A i, j \in 1..Len(e) : i < j => off(i) < off(j)
        /\ \A i, j \in 1..Len(e) : i # j => range(i) \cap range(j) = {}
        /\ UNION {range(i) : i \in 1..Len(e)} = 0..(attribs.vertex_size - 1)

\* the layout with every channel, of a vertex array that took a vertex
C7_Witness ==
    /\ Len(EnabledChannels(attribs)) = 4
    /\ attribs.vertex_size = 12
    /\ VertexAttributes_offset(attribs, "TEXCOORDS") = 10
    /\ vaoVerts > 0

(***************************************************************************)
(* C8.  After clear() every channel buffer and the index buffer of the     *)
(* vertex array hold no value, have write cursor 0 and are dirty.          *)
(***************************************************************************)
Cleared(b) == b.data = <<>> /\ b.offset = 0 /\ b.dirty

C8_ClearEmpties ==
    vaoOp = "clear" =>
        /\ \A k \in 1..Len(vao.vbos) : Cleared(vao.vbos[k])
        /\ Cleared(vao.vbo_indices)

\* clear() after vertices were appended and uploaded by a bind()
C8_Witness ==
    /\ vaoOp = "clear"
    /\ Len(vao.vbos) > 1
    /\ \A k \in 1..Len(vao.vbos) : Len(vao.vbos[k].gpu) = MaxVerts * ComponentCount(vao.vbos[k].usage)

(***************************************************************************)
(* C9.  After set_data, add_data_slice, add_data or clear the buffer is    *)
(* dirty; after bind() it is not; and a buffer that is not dirty holds     *)
(* what was last uploaded: the store written by the last upload is the     *)
(* buffer's contents (converted to integers for an index buffer).          *)
(***************************************************************************)
UploadOf(usage, data) ==
    IF usage = "INDICES" THEN [i \in 1..Len(data) |-> AsI32(data[i])] ELSE data

C9_DirtyUntilUploaded ==
    /\ vboOp \in {"set_data", "add_data_slice", "add_data", "clear"} => vbo.dirty
    /\ vboOp = "bind" => ~vbo.dirty
    /\ ~vbo.dirty => vbo.gpu = UploadOf(vbo.usage, vbo.data)

(***************************************************************************)
(* C10.  bind() uploads only when the buffer was dirty, and a bind() that  *)
(* follows a bind() with no mutation in between uploads nothing and leaves *)
(* the contents, the dirty flag and the uploaded store unchanged.          *)
(***************************************************************************)
C10_Bind ==
    vboOp' = "bind" =>
        /\ vbo'.uploaded => vbo.dirty
        /\ vboOp = "bind" =>
               /\ ~vbo'.uploaded
               /\ vbo'.data = vbo.data
               /\ vbo'.offset = vbo.offset
               /\ vbo'.dirty = vbo.dirty
               /\ vbo'.gpu = vbo.gpu

C10_BindIdempotent == [][C10_Bind]_vars

\* a bind() that uploaded nothing, of a buffer whose contents were uploaded before
C10_Witness ==
    /\ vboOp = "bind"
    /\ ~vbo.uploaded
    /\ vbo.data # <<>>
    /\ vbo.gpu = UploadOf(vbo.usage, vbo.data)

(***************************************************************************)
(* C11.  vertex(data) with Len(data) the layout stride appends to the      *)
(* buffer of each enabled channel, the buffers being those of the enabled  *)
(* channels in the order POSITION, COLOR, NORMAL, TEXCOORD, the values     *)
(* data[off .. off + count) with off the channel's layout offset, and      *)
(* leaves the index buffer as it was.                                      *)
(***************************************************************************)
C11_Vertex ==
    (vaoOp' = "vertex" /\ Len(vaoArg') = attribs.vertex_size) =>
        /\ ~vaoPanicked'
        /\ [k \in 1..Len(vao'.vbos) |-> vao'.vbos[k].usage] = EnabledChannels(attribs)
        /\ \A k \in 1..Len(vao.vbos) :
               LET usage == vao.vbos[k].usage
                   off   == VertexAttributes_offset(attribs, usage)
               IN  vao'.vbos[k].data
                     = vao.vbos[k].data \o SubSeq(vaoArg', off + 1, off + ComponentCount(usage))
        /\ vao'.vbo_indices = vao.vbo_indices

C11_VertexSlices == [][C11_Vertex]_vars

\* a second vertex of stride length was appended to the buffers of all four channels
C11_Witness ==
    /\ vaoOp = "vertex"
    /\ Len(vaoArg) = 12
    /\ ~vaoPanicked
    /\ vaoVerts = 2
    /\ Len(vao.vbos) = 4
    /\ vao.vbos[4].data = SubSeq(MkVertex(10, 12), 11, 12) \o SubSeq(vaoArg, 11, 12)

(***************************************************************************)
(* C12.  vertex(data) with Len(data) other than the layout stride panics   *)
(* and leaves every buffer as it was.                                      *)
(***************************************************************************)
C12_Vertex ==
    (vaoOp' = "vertex" /\ Len(vaoArg') # attribs.vertex_size) =>
        /\ vaoPanicked'
        /\ vao' = vao

C12_LengthChecked == [][C12_Vertex]_vars

(***************************************************************************)
(* C16.  render() of a bound vertex array issues a draw call: indexed,     *)
(* over the index count, when the index buffer has contents; otherwise     *)
(* non-indexed, over as many vertices as vertex() appended since the last  *)
(* clear(), whatever the layout.                                           *)
(***************************************************************************)
C16_Render ==
    (vaoOp' = "render" /\ vao.bound) =>
        /\ ~vaoPanicked'
        /\ IF vao.vbo_indices.data # <<>>
           THEN vaoDraw' = [kind |-> "DrawElements", count |-> Len(vao.vbo_indices.data)]
           ELSE vaoDraw' = [kind |-> "DrawArrays", count |-> vaoVerts]

C16_DrawCount == [][C16_Render]_vars

(***************************************************************************)
(* C17.  render() of a vertex array that is not bound panics and issues no *)
(* draw call; bound is false after construction, true after bind(), false  *)
(* after unbind() and changed by no other method.                          *)
(***************************************************************************)
C17_Render ==
    /\ (vaoOp' = "render" /\ ~vao.bound) => (vaoPanicked' /\ vaoDraw' = vaoDraw)
    /\ (vaoOp' = "render" /\ ~vaoPanicked') => vao.bound
    /\ vao'.bound # vao.bound => vaoOp' \in {"bind", "unbind"}

C17_Bound ==
    /\ vaoOp = "new" => ~vao.bound
    /\ vaoOp = "bind" => vao.bound
    /\ vaoOp = "unbind" => ~vao.bound

C17_RenderNeedsBind == [][C17_Render]_vars /\ []C17_Bound

\* render() of a vertex array that holds vertices, was bound and was unbound again
C17_Witness ==
    /\ vaoOp = "render"
    /\ vaoPanicked
    /\ ~vao.bound
    /\ vaoVerts > 0
    /\ \A k \in 1..Len(vao.vbos) : vao.vbos[k].gpu = vao.vbos[k].data

(***************************************************************************)
(* C13.  glGetUniformLocation is called at most once for each uniform      *)
(* name: a set_uniform_mat4f, set_uniform1f32 or set_uniform1i32 call for  *)
(* a name whose location was asked for before does not ask again.          *)
(***************************************************************************)
SetUniformOps == {"set_uniform_mat4f", "set_uniform1f32", "set_uniform1i32"}

C13_SetUniform ==
    (sp'.op.name \in SetUniformOps /\ sp.asked[sp'.op.uname] > 0) => sp'.asked = sp.asked

C13_AskedOnce == \A name \in SpNames : sp.asked[name] <= 1

C13_LocationCached == [][C13_SetUniform]_vars /\ []C13_AskedOnce

(***************************************************************************)
(* C14.  create_vertex_shader and create_fragment_shader panic when        *)
(* glCreateShader returns 0 and when the stage does not compile, link()    *)
(* panics when the program does not link, and none of these attaches the   *)
(* stage or sets linked; so a program with linked set has every created    *)
(* stage compiled and was linked.  A set_uniform_* call with a name that   *)
(* is no uniform of the program does not panic.                            *)
(***************************************************************************)
C14_BuildFails ==
    /\ (sp'.op.name \in {"create_vertex_shader", "create_fragment_shader"}
            /\ (sp'.op.id = 0 \/ sp'.op.status = 0))
       => /\ sp'.panicked
          /\ sp'.op.id \notin sp'.attached
          /\ sp'.shader.linked = sp.shader.linked
    /\ (sp'.op.name = "link" /\ sp'.op.status = 0)
       => /\ sp'.panicked
          /\ sp'.shader.linked = sp.shader.linked

C14_LinkedMeansBuilt ==
    (sp.shader.linked /\ ~sp.panicked) => (sp.created \subseteq sp.compiled /\ sp.link_ok)

C14_UnknownUniform ==
    (sp'.op.name \in SetUniformOps /\ sp'.op.uname \notin UniformNames) => ~sp'.panicked

C14_BuildChecked ==
    [][C14_BuildFails /\ C14_UnknownUniform]_vars /\ []C14_LinkedMeansBuilt

(***************************************************************************)
(* C15.  Mesh.render issues exactly one draw call, and issues it after the *)
(* shader was bound (unless bind_externally), every buffer uploaded and    *)
(* the projModelView uniform set: the draw call runs with the shader's     *)
(* program current, reads the values the mesh holds and has the matrix     *)
(* given.  Afterwards the vertex array is not bound, no channel or index   *)
(* buffer is dirty, and the program is unbound, unless bind_externally,    *)
(* which leaves the current program as it was.                             *)
(***************************************************************************)
C15_Render ==
    ms'.op.name = "render" =>
        LET be   == ms'.op.bind_externally
            d    == Last(ms'.draws)
            vbos == ms.mesh.vao.vbos
        IN  /\ ~ms'.panicked
            /\ Len(ms'.draws) = Len(ms.draws) + 1
            /\ SubSeq(ms'.draws, 1, Len(ms.draws)) = ms.draws
            /\ d.primitive = ms'.op.primitive
            /\ d.program = IF be THEN ms.gl.program ELSE ms.shader.program_id
            /\ d.stores = [k \in 1..Len(vbos) |-> vbos[k].data]
            /\ d.program # 0 => d.matrix = ms'.op.m
            /\ ~ms'.mesh.vao.bound
            /\ \A k \in 1..Len(vbos) :
                   /\ ~ms'.mesh.vao.vbos[k].dirty
                   /\ ms'.mesh.vao.vbos[k].data = vbos[k].data
            /\ ~ms'.mesh.vao.vbo_indices.dirty
            /\ ms'.gl.program = IF be THEN ms.gl.program ELSE 0

C15_RenderSteps == [][C15_Render]_vars

(***************************************************************************)
(* C18.  MeshRenderer.vertex(x, y, z) appends one vertex, of the position  *)
(* (x, y, z) and the colour of the last color() call since the previous    *)
(* vertex() or clear() (zero if there was none), and leaves the scratch    *)
(* buffer all zero, so that a vertex() right after a vertex() appends the  *)
(* colour zero; clear() leaves the mesh empty and the scratch buffer zero. *)
(***************************************************************************)
\* the vertices held by the position and colour buffers of the MeshRenderer's mesh
MrVertices(m) ==
    [j \in 1..(Len(m.vao.vbos[1].data) \div 3) |->
        [pos   |-> SubSeq(m.vao.vbos[1].data, 3 * j - 2, 3 * j),
         color |-> SubSeq(m.vao.vbos[2].data, 4 * j - 3, 4 * j)]]

MrWhole(m) ==
    /\ Len(m.vao.vbos) = 2
    /\ \E n \in 0..Len(m.vao.vbos[1].data) :
           Len(m.vao.vbos[1].data) = 3 * n /\ Len(m.vao.vbos[2].data) = 4 * n

AllZero(v) == \A i \in 1..Len(v) : v[i] = 0

C18_Step ==
    /\ mr'.op.name = "vertex" =>
           /\ MrWhole(mr'.r.mesh)
           /\ MrVertices(mr'.r.mesh)
                = Append(MrVertices(mr.r.mesh), [pos |-> mr'.op.args, color |-> mr.staged])
           /\ Len(mr'.r.next_vertex) = 7 /\ AllZero(mr'.r.next_vertex)
           /\ mr.op.name = "vertex" => Last(MrVertices(mr'.r.mesh)).color = NoColor
    /\ mr'.op.name = "clear" =>
           /\ MeshEmpty(mr'.r.mesh)
           /\ Len(mr'.r.next_vertex) = 7 /\ AllZero(mr'.r.next_vertex)

C18_VertexAppended == [][C18_Step]_vars

\* a vertex with a staged colour followed a vertex with another
C18_Witness ==
    /\ mr.op.name = "vertex"
    /\ Len(MrVertices(mr.r.mesh)) = 2
    /\ MrVertices(mr.r.mesh)[1].color = <<F32(1), F32(0), F32(0), F32(1)>>
    /\ MrVertices(mr.r.mesh)[2].color = <<F32(0), F32(1), F32(1), F32(1)>>
    /\ MrVertices(mr.r.mesh)[2].pos = <<F32(-4), F32(5), F32(0)>>

(***************************************************************************)
(* C19.  On a MeshRenderer normal() and tex_coord() leave the scratch      *)
(* buffer and the mesh as they were, and the vertex() called after them    *)
(* leaves what it would have left without them.                            *)
(***************************************************************************)
C19_Setter ==
    mr'.op.name \in {"normal", "tex_coord"} =>
        /\ ~mr'.panicked
        /\ mr'.r.next_vertex = mr.r.next_vertex
        /\ mr'.r.mesh = mr.r.mesh

C19_SameVertex ==
    \A p \in Positions :
        /\ MeshRenderer_vertex(MeshRenderer_normal(mr.r, NormalArg[1], NormalArg[2], NormalArg[3]),
                               p[1], p[2], p[3])
             = MeshRenderer_vertex(mr.r, p[1], p[2], p[3])
        /\ MeshRenderer_vertex(MeshRenderer_tex_coord(mr.r, TexCoordArg[1], TexCoordArg[2]),
                               p[1], p[2], p[3])
             = MeshRenderer_vertex(mr.r, p[1], p[2], p[3])

C19_DisabledChannelNoOp == [][C19_Setter]_vars /\ []C19_SameVertex

\* tex_coord() on a scratch buffer that holds a staged colour, of a mesh that holds a vertex
C19_Witness ==
    /\ mr.op.name = "tex_coord"
    /\ mr.staged = <<F32(1), F32(0), F32(0), F32(1)>>
    /\ SubSeq(mr.r.next_vertex, 4, 7) = mr.staged
    /\ Len(MrVertices(mr.r.mesh)) = 1

(***************************************************************************)
(* C20.  After new, with_perspective, look_at, rotate and translate the    *)
(* view matrix is the look-at matrix of the position, direction and up     *)
(* vectors the camera holds, and combined is projection * view.            *)
(***************************************************************************)
C20_DerivedUpToDate ==
    /\ cam.c.view = LookAtRh(cam.c.position, VecAdd(cam.c.position, cam.c.direction), cam.c.up)
    /\ cam.c.combined = MatMul(cam.c.projection, cam.c.view)

(***************************************************************************)
(* C21.  look_at() with the target equal to the position of the camera     *)
(* leaves direction and up as they were, and the camera never holds a      *)
(* direction that has length zero or is not a number.                      *)
(***************************************************************************)
C21_LookAtPosition ==
    (cam'.op.name = "look_at" /\ cam'.op.args = cam.c.position)
        => /\ cam'.c.direction = cam.c.direction
           /\ cam'.c.up = cam.c.up

C21_DirectionDefined == cam.c.direction # NaNVec /\ cam.c.direction # <<0, 0, 0>>

C21_ZeroTargetRejected == [][C21_LookAtPosition]_vars /\ []C21_DirectionDefined

(***************************************************************************)
(* C22.  multiply(1,1,1,1) returns a texture whose pixel at every (x,y) is *)
(* the pixel of the source at (x,y); multiply(0,0,0,1) returns a texture   *)
(* whose pixel at every (x,y) is black with the alpha of the source at     *)
(* (x,y); the pixels and the handle of the source are unchanged.           *)
(***************************************************************************)
\* the pixel at (x, y), in the Texture and in its GL texture object
PixelsAgree(t, store, src, f(_)) ==
    /\ t.width = src.width /\ t.height = src.height
    /\ \A y \in 1..src.height : \A x \in 1..src.width :
           /\ t.original_image[y][x] = f(src.original_image[y][x])
           /\ store[t.id][y][x] = f(store[src.id][y][x])

SamePixel(p) == p

BlackPixel(p) == <<0, 0, 0, p[4]>>

C22_Multiply ==
    tx'.op.name = "multiply" =>
        /\ tx'.op.args = <<F32(1), F32(1), F32(1), F32(1)>>
               => PixelsAgree(Unwrap(tx'.out), tx'.store, tx'.src, SamePixel)
        /\ tx'.op.args = <<0, 0, 0, F32(1)>>
               => PixelsAgree(Unwrap(tx'.out), tx'.store, tx'.src, BlackPixel)
        /\ tx'.src \in {tx.src} \cup {tx.out[i] : i \in 1..Len(tx.out)}
        /\ tx'.store[tx'.src.id] = tx.store[tx'.src.id]

C22_MultiplyPixels == [][C22_Multiply]_vars

(***************************************************************************)
(* C23.  bind() of a dirty index buffer holding n values uploads exactly   *)
(* those n values converted to 4-byte integers, in order: the uploaded     *)
(* sequence has length n and its i-th element is the conversion of the     *)
(* i-th value of the buffer.                                               *)
(***************************************************************************)
C23_Bind ==
    (vboOp' = "bind" /\ vbo.usage = "INDICES" /\ vbo.dirty) =>
        /\ vbo'.uploaded
        /\ Len(vbo'.gpu) = Len(vbo.data)
        /\ \A i \in 1..Len(vbo.data) : vbo'.gpu[i] = AsI32(vbo.data[i])

C23_IndexUpload == [][C23_Bind]_vars

(***************************************************************************)
(* C24.  Under any order of begin, texture, texture_xy, flush and end,     *)
(* texture() calls made while no session is open included, every quad that *)
(* reaches a draw call is drawn with the texture it was submitted with,    *)
(* and no quad is drawn more than once: the quads a draw call has drawn    *)
(* are no longer in the mesh.                                              *)
(***************************************************************************)
\* the operation issued a draw call (begin() issues none and empties draws)
DrawIssued == trOp'.name # "begin" /\ Len(draws') = Len(draws) + 1

\* pending names the quads of the mesh
C24_PendingIsMesh == Len(pending) = QuadsHeld(mesh)

C24_Draw ==
    DrawIssued =>
        /\ \A i \in 1..Len(pending) : pending[i] = Last(draws').texture
        /\ QuadsHeld(mesh') = IF trOp'.name \in {"texture", "texture_xy"} THEN 1 ELSE 0

C24_OwnTextureOnce == [][C24_Draw]_vars /\ []C24_PendingIsMesh

(***************************************************************************)
(* C25.  In every state of the TextureRenderer reached by begin, texture,  *)
(* flush and end, dirty is true exactly when the mesh holds at least one   *)
(* vertex, and the number of vertices the mesh holds is a multiple of 6.   *)
(***************************************************************************)
C25_DirtyIffVertices ==
    /\ MeshWhole(mesh)
    /\ dirty <=> Len(MeshVertices(mesh)) >= 1
    /\ Len(MeshVertices(mesh)) % 6 = 0

\* a texture() call that flushed the quads of another texture and left its own
C25_Witness ==
    /\ trOp.name \in {"texture", "texture_xy"}
    /\ Len(draws) >= 1
    /\ Len(Last(draws).stores[1]) >= 18
    /\ dirty
    /\ Len(MeshVertices(mesh)) = 6

(***************************************************************************)
(* C26.  Every uniform write issued during flush(), that of textureSampler *)
(* and that of projModelView, happens while the program of the renderer's  *)
(* own shader is the current program.                                      *)
(***************************************************************************)
C26_Flush ==
    DrawIssued =>
        \A name \in {"textureSampler", "projModelView"} : gl'.written[name] = shader.program_id

C26_WritesWhileBound == [][C26_Flush]_vars

(***************************************************************************)
(* C27.  Blending is enabled at every draw call the TextureRenderer issues *)
(* between its begin() and end(), however the texture and flush calls of   *)
(* the session are interleaved with MeshRenderer::render calls on the same *)
(* graphics context.                                                       *)
(***************************************************************************)
C27_Draw == (DrawIssued /\ combined # None) => Last(draws').blend

C27_BlendAtDraw == [][C27_Draw]_vars

(***************************************************************************)
(* C28.  For every layout and every channel enabled in it,                 *)
(* VertexArrayObject::get_vertex_offset(channel) equals                    *)
(* VertexAttributes::offset(channel) and offset + component count <=       *)
(* vertex_size; so values staged in a scratch vertex at that offset lie    *)
(* inside it, at the positions from which vertex() reads the channel.      *)
(***************************************************************************)
\* a scratch vertex with the values 101, 102, ... staged for usage at offset off
Staged(usage, off) ==
    [i \in 1..attribs.vertex_size |->
        IF off < i /\ i <= off + Usage_offset(usage) THEN 100 + i - off ELSE 0]

\* vertex() on a fresh array of the layout hands the staged values to the buffer of usage
ReadsStaged(usage, off) ==
    LET r == VertexArrayObject_vertex(VertexArrayObject_new(attribs), Staged(usage, off))
    IN  /\ ~r.panicked
        /\ \E k \in 1..Len(r.vao.vbos) :
               /\ r.vao.vbos[k].usage = usage
               /\ r.vao.vbos[k].data = [i \in 1..Usage_offset(usage) |-> 100 + i]

C28_OffsetsAgree ==
    \A k \in 1..4 :
        VertexAttributes_usage(attribs, Usages[k]) =>
            LET off == VertexArrayObject_get_vertex_offset(vao, Usages[k])
            IN  /\ off = VertexAttributes_offset(attribs, Usages[k])
                /\ off + Usage_offset(Usages[k]) <= attribs.vertex_size
                /\ ReadsStaged(Usages[k], off)

\* vertex() read the texture coordinates of a layout without normals at offset 7
C28_Witness ==
    /\ attribs = VertexAttributes_with(TRUE, TRUE, FALSE, TRUE)
    /\ vaoOp = "vertex"
    /\ ~vaoPanicked
    /\ VertexArrayObject_get_vertex_offset(vao, "TEXCOORDS") = 7
    /\ vao.vbos[3].data = SubSeq(vaoArg, 8, 9)

=============================================================================
